---- MODULE Spec2Model ----
(***************************************************************************)
(* NRG Ljubljana: the iterative diagonalisation / truncation engine of     *)
(* src/c++/nrg-general.h (with the legacy twin in src/c++/nrg-lib.cc).     *)
(*                                                                         *)
(* Eigenvalues are integers (multiples of one energy unit).  The           *)
(* safeguard gap and the keep-energy are kept in half units (safeguard2 =  *)
(* 2 * safeguard, keepenergy2 = 2 * keepenergy) so that a threshold        *)
(* strictly between two eigenvalues can be expressed.  diagratio is kept   *)
(* in tenths (1 .. 10  stands for  0.1 .. 1.0).                            *)
(***************************************************************************)
EXTENDS Integers, Sequences, FiniteSets, TLC

\* ---------------------------------------------------------------- bounds
MaxE    == 2      \* eigenvalues of a Hamiltonian block lie in 0 .. MaxE
MaxDim0 == 2      \* largest subspace of the initial (data file) spectrum
MaxN    == 2      \* largest chain length Nmax
MaxKeep == 3      \* largest value of the keep parameter

\* largest Hamiltonian block that is diagonalised: the block built from
\* two subspaces that are one state larger than the largest data subspace
MaxDim  == 2 * (MaxDim0 + 1)

DiagDen == 10     \* diagratio is stored in tenths

\* The model symmetry is the fermion parity: two invariant subspaces,
\* label 1 (even) and label 2 (odd).
Invars == {1, 2}

\* ------------------------------------------------------- generic helpers
Min2(a, b) == IF a < b THEN a ELSE b
Max2(a, b) == IF a > b THEN a ELSE b

RECURSIVE SeqSum(_)
SeqSum(s) == IF s = <<>> THEN 0 ELSE Head(s) + SeqSum(Tail(s))

RECURSIVE SetSum(_, _)
SetSum(f, S) == IF S = {} THEN 0
                ELSE LET x == CHOOSE y \in S : TRUE IN f[x] + SetSum(f, S \ {x})

\* the weakly increasing sequences of length n over the energy alphabet
RECURSIVE SortedSeqs(_, _)
SortedSeqs(n, lo) ==
  IF n = 0 THEN { <<>> }
  ELSE UNION { { <<e>> \o t : t \in SortedSeqs(n - 1, e) } : e \in lo .. MaxE }

\* insertion of x into the ascending sequence s
RECURSIVE InsertSorted(_, _)
InsertSorted(x, s) ==
  IF s = <<>> THEN <<x>>
  ELSE IF x <= Head(s) THEN <<x>> \o s
  ELSE <<Head(s)>> \o InsertSorted(x, Tail(s))

RECURSIVE SortAsc(_)
SortAsc(s) == IF s = <<>> THEN <<>> ELSE InsertSorted(Head(s), SortAsc(Tail(s)))

CountLeq(s, x) == Cardinality({ i \in 1 .. Len(s) : s[i] <= x })

Prefix(s, n) == SubSeq(s, 1, n)

\* --------------------------------------------------------------- Eigen
\* One subspace spectrum.  value_orig: eigenvalues as computed; dim: the
\* number of columns of the eigenvector matrix; value_zero: eigenvalues
\* with Egs subtracted; nrpost: -1 until the truncation is prepared;
\* blocks: number of rows of the eigenvector blocks (-1 before the split,
\* 0 after clear_eigenvectors).
EigenNew(v, d) ==
  [ value_orig |-> v, dim |-> d, value_zero |-> <<>>, nrpost |-> -1, blocks |-> -1 ]

getnrcomputed(eig) == Len(eig.value_orig)
getdim(eig)        == eig.dim
getnrpost(eig)     == IF eig.nrpost = -1 THEN getnrcomputed(eig) ELSE eig.nrpost
getnrstored(eig)   == Len(eig.value_zero)
getnrkept(eig)     == getnrpost(eig)

\* Eigen::diagonal — spectrum given in its own eigenbasis (data file)
EigenDiagonal(v) ==
  [ value_orig |-> v, dim |-> Len(v), value_zero |-> v, nrpost |-> -1, blocks |-> -1 ]

EigenSubtractEgs(eig, Egs) ==
  [ eig EXCEPT !.value_zero = [ i \in 1 .. Len(eig.value_orig) |-> eig.value_orig[i] - Egs ] ]

truncate_prepare_subspace(eig, n) == [ eig EXCEPT !.nrpost = n ]

\* ublas resize(n): keeps the first n entries, pads with zeros when growing
Resize(s, n) == [ i \in 1 .. n |-> IF i <= Len(s) THEN s[i] ELSE 0 ]

\* variant: the resize drops one state too many
EigenTruncateShort(eig) ==
  [ eig EXCEPT !.value_zero = Resize(eig.value_zero, eig.nrpost - 1),
               !.blocks     = IF eig.blocks = -1 THEN -1 ELSE eig.nrpost - 1 ]

EigenTruncatePerform(eig) ==
  [ eig EXCEPT !.value_zero = Resize(eig.value_zero, eig.nrpost),
               !.blocks     = IF eig.blocks = -1 THEN -1 ELSE eig.nrpost ]

\* ------------------------------------------------------------ DiagInfo
\* variant: the lowest eigenvalue of the first subspace, not the minimum
find_groundstate_first(d) ==
  LET I == CHOOSE J \in DOMAIN d : \A K \in DOMAIN d : J <= K
  IN  d[I].value_orig[1]

find_groundstate(d) ==
  LET lows == { d[I].value_orig[1] : I \in DOMAIN d }
  IN  CHOOSE e \in lows : \A f \in lows : e <= f

subtract_Egs(d, Egs) == [ I \in DOMAIN d |-> EigenSubtractEgs(d[I], Egs) ]

RECURSIVE ConcatZero(_, _)
ConcatZero(d, S) ==
  IF S = {} THEN <<>>
  ELSE LET I == CHOOSE J \in S : \A K \in S : J <= K
       IN  d[I].value_zero \o ConcatZero(d, S \ {I})

sorted_energies(d) == SortAsc(ConcatZero(d, DOMAIN d))

truncate_perform(d) == [ I \in DOMAIN d |-> EigenTruncatePerform(d[I]) ]

size_subspace(d, I) == IF I \in DOMAIN d THEN getnrstored(d[I]) ELSE 0

clear_eigenvectors(d) == [ I \in DOMAIN d |-> [ d[I] EXCEPT !.blocks = IF @ = -1 THEN -1 ELSE 0 ] ]

\* ---------------------------------------------------------- truncation
\* std::clamp(v, lo, hi).  With hi < lo the call is undefined: libstdc++
\* computes min(max(v, lo), hi), libc++ the ternary form, and a build with
\* library assertions stops.  build names the outcome of the build in use.
ClampDefined(lo, hi) == lo <= hi
Clamp(v, lo, hi, build) ==
  IF build = "minmax" THEN Min2(Max2(v, lo), hi)
  ELSE IF v < lo THEN lo ELSE IF hi < v THEN hi ELSE v

\* Step::unscale() for a run that is not in absolute mode
step_unscale == 1

\* the keep count before the safeguard
\* number of eigenvalues e with e <= keepenergy * unscale
CountBelowCutoff(energies, P) ==
  Cardinality({ i \in 1 .. Len(energies) : 2 * energies[i] <= P.keepenergy2 * step_unscale })

\* variant: the first state above the cutoff is not counted
nrkeep_start_below(energies, P) ==
  IF P.keepenergy2 <= 0 THEN P.keep
  ELSE Clamp(CountBelowCutoff(energies, P), P.keepmin, P.keep, P.build)

\* variant: one state more than keep when there is no keep-energy
nrkeep_start_more(energies, P) ==
  IF P.keepenergy2 <= 0 THEN P.keep + 1
  ELSE Clamp(1 + CountBelowCutoff(energies, P), P.keepmin, P.keep, P.build)

\* variant: the lower bound keepmin is not applied
nrkeep_start_nomin(energies, P) ==
  IF P.keepenergy2 <= 0 THEN P.keep
  ELSE Min2(1 + CountBelowCutoff(energies, P), P.keep)

nrkeep_start(energies, P) ==
  IF P.keepenergy2 <= 0 THEN P.keep
  ELSE Clamp(1 + CountBelowCutoff(energies, P), P.keepmin, P.keep, P.build)

\* variant: the loop stops at a gap equal to the tolerance
RECURSIVE safeguard_extra_strict(_, _, _, _)
safeguard_extra_strict(energies, nrkeep, cnt, P) ==
  IF /\ nrkeep < Len(energies)
     /\ 2 * (energies[nrkeep + 1] - energies[nrkeep]) < P.safeguard2
     /\ cnt < P.safeguardmax
  THEN safeguard_extra_strict(energies, nrkeep + 1, cnt + 1, P)
  ELSE cnt

\* the safeguard loop; returns the number of additional states
RECURSIVE safeguard_extra(_, _, _, _)
safeguard_extra(energies, nrkeep, cnt, P) ==
  IF /\ nrkeep < Len(energies)
     /\ 2 * (energies[nrkeep + 1] - energies[nrkeep]) <= P.safeguard2
     /\ cnt < P.safeguardmax
  THEN safeguard_extra(energies, nrkeep + 1, cnt + 1, P)
  ELSE cnt

cnt_extra(energies, P) ==
  IF P.safeguard2 > 0 THEN safeguard_extra(energies, nrkeep_start(energies, P), 0, P) ELSE 0

\* the final keep count
nrkeep_final(energies, P) ==
  Clamp(nrkeep_start(energies, P) + cnt_extra(energies, P), 1, Len(energies), "minmax")

\* the two my_assert / library-assert stops of highest_retained_energy
hre_aborts(d, P) ==
  \/ sorted_energies(d)[1] # 0
  \/ P.keepenergy2 > 0 /\ ~ClampDefined(P.keepmin, P.keep) /\ P.build = "assert"

highest_retained_energy(d, P) ==
  LET energies == sorted_energies(d)
  IN  energies[nrkeep_final(energies, P)]

\* the per-subspace kept count recorded by truncate_prepare
kept_count(eig, Emax, last, P) ==
  IF last /\ P.lastall THEN getnrcomputed(eig) ELSE CountLeq(eig.value_zero, Emax)

truncate_prepare(d, last, P) ==
  LET Emax == highest_retained_energy(d, P)
  IN  [ I \in DOMAIN d |-> truncate_prepare_subspace(d[I], kept_count(d[I], Emax, last, P)) ]

\* the condition under which truncate_prepare throws NotEnough
NotEnough(d, Emax) ==
  \E I \in DOMAIN d :
     /\ getnrkept(d[I]) = getnrcomputed(d[I])
     /\ d[I].value_zero[getnrcomputed(d[I])] # Emax
     /\ getnrcomputed(d[I]) < getdim(d[I])

\* truncate_stats.nrkept
nrkept(d) == SetSum([ I \in DOMAIN d |-> getnrkept(d[I]) ], DOMAIN d)

\* ------------------------------------------------------ symmetry, tasks
\* The ancestor table of the parity symmetry for a site with one empty
\* (even) and one occupied (odd) state: a subspace is built from the
\* previous shell's subspace of the same and of the opposite parity.
ancestors(I) == << I, 3 - I >>

\* Rmaxvals: the dimensions of the ancestor subspaces
Rmaxvals(I, dprev) == [ i \in 1 .. 2 |-> size_subspace(dprev, ancestors(I)[i]) ]
rm_total(I, dprev) == SeqSum(Rmaxvals(I, dprev))

new_subspaces(dprev) ==
  { I \in Invars : \E i \in 1 .. 2 : ancestors(I)[i] \in DOMAIN dprev }

\* QSrmax::task_list — subspaces with a non-empty block, largest first
TaskSet(dprev) == { I \in new_subspaces(dprev) : rm_total(I, dprev) > 0 }

\* std::greater on (size, Invar) pairs
TaskBefore(I, J, size) ==
  \/ size[I] > size[J]
  \/ size[I] = size[J] /\ I > J

RECURSIVE TaskOrder(_, _)
TaskOrder(S, size) ==
  IF S = {} THEN <<>>
  ELSE LET I == CHOOSE J \in S : \A K \in S \ {J} : TaskBefore(J, K, size)
       IN  <<I>> \o TaskOrder(S \ {I}, size)

task_list(dprev) ==
  TaskOrder(TaskSet(dprev), [ I \in TaskSet(dprev) |-> rm_total(I, dprev) ])

\* --------------------------------------------------------- diagonalise
\* number of eigenpairs computed for a block of size dim at ratio r/10
nr_computed(dim, r) == Max2(1, Min2(dim, (r * dim + DiagDen - 1) \div DiagDen))

\* a Hamiltonian block is represented by its full ascending spectrum h
diagonalise(h, r) == EigenNew(Prefix(h, nr_computed(Len(h), r)), Len(h))

\* the result every dispatcher has to deliver for the blocks hm
diagonalisations(hm, r) == [ I \in DOMAIN hm |-> diagonalise(hm[I], r) ]

\* ================================================================ state
VARIABLES
  P,          \* the parameter struct (immutable after setup)
  data,       \* the subspace sizes given by the input file "data"
  runtype,    \* Step::runtype, "NRG" or "DMNRG"
  ndxN,       \* Step::ndxN
  pc,         \* position of the root in nrg_loop / iterate / after_diag
  diagprev,   \* DiagInfo of the previous shell
  hmat,       \* the Hamiltonian blocks of the current step
  diag,       \* DiagInfo of the current shell
  diagratio,  \* do_diag's local diagratio, in tenths
  nattempt,   \* number of restarts of the current step
  notenough,  \* the last attempt of the current step signalled NotEnough
  stats,      \* Stats: Egs, total_energy, GS_energy
  dm,         \* AllSteps
  files,      \* the unitary<N> blobs of the working directory
  phases,     \* per step index, the actions completed in the current pass
  diagnew,    \* the DiagInfo a dispatcher is filling
  mpi,        \* diagonalisations_MPI: the lists todo, done and nodes
  inbox,      \* per worker rank, the messages sent by the root, in order
  outbox,     \* per worker rank, the messages sent to the root, in order
  wk,         \* per worker rank, the state of run_nrg_slave
  omp,        \* diagonalisations_OpenMP: loop counter, critical lock, threads
  fsys,       \* the blobs present, loaded and removed; the DONE flag file
  error,      \* the exception that has ended the run, if any
  wd          \* the scratch directory: Workdir and the directories on disk

\* the variables of the engine proper and those of the dispatchers
evars == << data, runtype, diagprev, nattempt, notenough, stats, dm, files, phases >>
dvars == << diagnew, mpi, inbox, outbox, wk, omp >>
xvars == << fsys, error, wd >>

vars == << P, data, runtype, ndxN, pc, diagprev, hmat, diag, diagratio, nattempt,
           notenough, stats, dm, files, phases, diagnew, mpi, inbox, outbox, wk, omp,
           fsys, error, wd >>

NoDiag == << >>    \* an empty DiagInfo (also an absent blob, an empty dm slot)

MaxAttempts == 6   \* restarts of one step that are followed

\* ------------------------------------------------------------- Step
firstndx     == 0
\* P.ZBW: the zero-bandwidth calculation, a chain of length 0
ZBW          == P.Nmax = 0
\* P.Nlen: the number of step indexes (for ZBW, Nlen = Nmax + 1)
Nlen         == IF ZBW THEN P.Nmax + 1 ELSE P.Nmax
lastndx      == IF ZBW THEN firstndx ELSE P.Nmax - 1
step_first   == ndxN = firstndx
step_last    == ndxN = lastndx \/ (ZBW /\ ndxN = firstndx)
step_end     == ndxN >= P.Nmax
step_nrg     == runtype = "NRG"
step_dmnrg   == runtype = "DMNRG"
\* Step::scale() in units of Lambda^(-Nmax/2), for Lambda = 4
step_scale   == 2 ^ (Nlen - 1 - ndxN)

\* P.resume && step.ndx() <= P.laststored
resumed == P.resume /\ ndxN <= P.laststored

\* variant: the strategy setting decides in both passes
do_recalc_kept_any_pass == P.strategy = "kept" /\ ~ZBW

\* do_recalc_kept / do_recalc_all / do_recalc_none (do_no_recalc);
\* P.cfs_flags: a CFS spectral-function algorithm is enabled
do_recalc_kept == P.strategy = "kept" /\ ~(P.cfs_flags /\ runtype = "DMNRG") /\ ~ZBW
do_recalc_all  == ~do_recalc_kept /\ ~ZBW
do_recalc_none == ZBW

\* variant: the DM store is dimensioned by the chain length Nmax
AllStepsNend_Nmax == P.Nmax

\* AllSteps dm(P.Ninit, P.Nlen): the valid indexes are Nbegin .. Nend - 1,
\* the vector has at least one element
AllStepsNend == Nlen
AllStepsSize == IF AllStepsNend # 0 THEN AllStepsNend ELSE 1

Done(ph) == [ phases EXCEPT ![ndxN] = @ \cup {ph} ]

\* variant: the step index advances by two
step_next_skip(n) == n + 2

\* Step::next
step_next(n) == n + 1

\* variant: the DM store comes before the physical truncation
after_diag_store_first ==
  << "after_diag", "split", "recalc_all", "dm_store", "truncate",
     "recalc_irr", "recalc_kept", "trim" >>

\* the statements of after_diag in program order, named by the position
\* of the run before each of them
after_diag_sequence ==
  << "after_diag", "split", "recalc_all", "truncate", "dm_store",
     "recalc_irr", "recalc_kept", "trim" >>

\* the position after the statement at position p
pc_after(p) ==
  LET i == CHOOSE j \in 1 .. Len(after_diag_sequence) - 1 : after_diag_sequence[j] = p
  IN  after_diag_sequence[i + 1]

\* ------------------------------------------------------------- inputs
KeepAll == 4 * MaxDim     \* a keep value above every number of states

BaseConfig ==
  [ Nmax |-> MaxN, keep |-> KeepAll, keepmin |-> 0, keepenergy2 |-> 0,
    safeguard2 |-> 0, safeguardmax |-> 0, build |-> "minmax", lastall |-> FALSE,
    diagratio |-> DiagDen, restartfactor |-> 2, restart |-> TRUE,
    dm |-> FALSE, strategy |-> "kept",
    resume |-> FALSE, laststored |-> -1, prevratio |-> DiagDen,
    inputs |-> "ladder", diag_mode |-> "OpenMP", mpisize |-> 1, diagth |-> 1,
    removefiles |-> TRUE, need_rho |-> FALSE, need_rhoFDM |-> FALSE,
    stopafter |-> "", done |-> TRUE, cfs_flags |-> FALSE ]

\* configurations of the run: chain length, passes, restarts, strategy
RunConfigs ==
  { [ BaseConfig EXCEPT !.Nmax = n, !.keep = k, !.diagratio = r[1], !.restart = r[2],
                        !.dm = d, !.strategy = IF d THEN "all" ELSE "kept" ] :
      n \in {1, MaxN}, k \in {1, KeepAll},
      r \in { <<DiagDen, TRUE>>, <<5, TRUE>>, <<5, FALSE>> }, d \in BOOLEAN }

\* configurations that resume an interrupted run whose blob of step 0 holds
\* the spectra computed at diagratio 0.5
ResumeConfigs ==
  { [ BaseConfig EXCEPT !.restart = rs, !.dm = d, !.resume = TRUE,
                        !.laststored = 0, !.prevratio = 5 ] :
      rs \in BOOLEAN, d \in BOOLEAN }

\* configurations whose restarts do not raise diagratio
StallConfigs ==
  { [ BaseConfig EXCEPT !.Nmax = 1, !.diagratio = 5, !.restartfactor = 1, !.dm = d ] :
      d \in BOOLEAN }

\* two-pass runs with and without a CFS algorithm, for both strategies
CfsConfigs ==
  { [ BaseConfig EXCEPT !.Nmax = n, !.dm = TRUE, !.strategy = st,
                        !.cfs_flags = c, !.need_rho = c ] :
      n \in {1, MaxN}, st \in {"kept", "all"}, c \in BOOLEAN }

\* configurations that exercise the truncation parameters on one step
SafeguardPairs == { <<0, 1>>, <<1, 1>>, <<1, 2>>, <<2, 1>>, <<2, 2>> }
TruncBase == [ BaseConfig EXCEPT !.Nmax = 1, !.inputs = "any" ]

\* the plain cut at keep states (keepenergy <= 0), with and without keepmin
KeepConfigs ==
  { [ TruncBase EXCEPT !.keep = k, !.keepmin = km, !.dm = d ] :
      k \in 1 .. MaxKeep, km \in {0, MaxKeep}, d \in BOOLEAN }
\* ... after a partial diagonalisation that is not restarted
PartialConfigs ==
  { [ TruncBase EXCEPT !.keep = k, !.diagratio = 5, !.restart = FALSE, !.dm = d ] :
      k \in 1 .. MaxKeep, d \in BOOLEAN }
\* ... with the safeguard
SafeguardConfigs ==
  { [ TruncBase EXCEPT !.keep = k, !.safeguard2 = sg[1], !.safeguardmax = sg[2] ] :
      k \in 1 .. MaxKeep, sg \in SafeguardPairs }
\* ... with all states kept in the last step, after a partial diagonalisation
LastAllConfigs ==
  { [ TruncBase EXCEPT !.keep = k, !.lastall = TRUE, !.diagratio = 5, !.restart = FALSE ] :
      k \in 1 .. MaxKeep }
\* the cut at keepenergy: keep and keepmin are the bounds of std::clamp, and
\* the build only matters where the call is undefined (keepmin > keep)
EnergyConfigs ==
  { c \in { [ TruncBase EXCEPT !.keep = k, !.keepmin = km, !.keepenergy2 = ke, !.build = b ] :
              k \in 1 .. MaxKeep, km \in 0 .. MaxKeep + 1, ke \in {1, 3},
              b \in {"minmax", "ternary", "assert"} } :
      c.build # "minmax" => c.keepmin > c.keep }

\* ... and the cut at keepenergy followed by the safeguard
EnergySafeguardConfigs ==
  { [ TruncBase EXCEPT !.keep = MaxKeep, !.keepenergy2 = ke,
                       !.safeguard2 = sg[1], !.safeguardmax = sg[2] ] :
      ke \in {1, 3}, sg \in { <<1, 1>>, <<2, 1>> } }

TruncConfigs ==
  KeepConfigs \cup PartialConfigs \cup SafeguardConfigs \cup LastAllConfigs \cup EnergyConfigs
    \cup EnergySafeguardConfigs

\* the dense problem of the restart scenario: diagratio 0.1, factor 2,
\* every state is wanted
RestartConfigs ==
  { [ BaseConfig EXCEPT !.Nmax = 1, !.diagratio = 1, !.dm = d, !.inputs = "any" ] :
      d \in BOOLEAN }

\* the spectrum of the data file: subspace I holds sz[I] states
diag0(sz) == [ I \in Invars |-> EigenDiagonal([ i \in 1 .. sz[I] |-> i - 1 ]) ]

AllData     == [ Invars -> 1 .. MaxDim0 ]
TypicalData == { sz \in AllData : sz[1] = sz[2] \/ sz[1] = MaxDim0 }
SmallData   == { sz \in AllData : sz[1] >= sz[2] /\ sz[1] + sz[2] <= MaxDim0 + 1 }
DenseData   == [ Invars -> {MaxDim0 + 1} ]

\* blob names: unitary<N>, rho<N>, rhoFDM<N>
Blob(prefix, N) == << prefix, N >>

\* the working directory at the start: empty, or with the unitary blobs an
\* interrupted run has stored; written: the blobs this run has written;
\* log: the loads of this run, with the pass and the step of each
fsys_init ==
  [ present |-> IF P.resume THEN { Blob("unitary", n) : n \in 0 .. P.laststored } ELSE {},
    loaded  |-> {},
    removed |-> {},
    failed  |-> {},
    written |-> {},
    log     |-> << >>,
    DONE    |-> FALSE ]

\* the runtime_error thrown when a blob cannot be read: it is absent, or
\* what is on disk is not the whole blob
ReadError(fn) == [ what |-> "Can't open file for reading", file |-> fn ]
BadError(fn)  == [ what |-> "Error reading", file |-> fn ]

\* the I/O errors of a save: the file cannot be opened; the stream is bad
\* after the write of a subspace; the last buffered bytes cannot be written
\* when the stream is closed
WriteErrors(fn) ==
  { [ what |-> "Can't open file for writing", file |-> fn ],
    [ what |-> "Error writing", file |-> fn ],
    [ what |-> "close", file |-> fn ] }

\* variant: the blob stays in the working directory after the load
blob_load_keep(fs, fn, remove_files) ==
  [ fs EXCEPT !.loaded = @ \cup {fn},
              !.log = Append(@, [ pass |-> runtype, ndx |-> ndxN, fn |-> fn ]) ]

\* DiagInfo::load / DensMatElements::load of a blob that is present
blob_load(fs, fn, remove_files) ==
  [ fs EXCEPT !.loaded  = @ \cup {fn},
              !.log     = Append(@, [ pass |-> runtype, ndx |-> ndxN, fn |-> fn ]),
              !.present = IF remove_files THEN @ \ {fn} ELSE @,
              !.removed = IF remove_files THEN @ \cup {fn} ELSE @ ]

\* the loads of the blobs seq in order; the first absent one throws
RECURSIVE load_result(_, _, _)
load_result(fs, seq, remove_files) ==
  IF seq = << >> THEN [ fs |-> fs, err |-> [ what |-> "", file |-> << >> ] ]
  ELSE IF Head(seq) \notin fs.present THEN [ fs |-> fs, err |-> ReadError(Head(seq)) ]
  ELSE IF Head(seq) \in fs.failed THEN [ fs |-> fs, err |-> BadError(Head(seq)) ]
  ELSE load_result(blob_load(fs, Head(seq), remove_files), Tail(seq), remove_files)

\* no exception
NoError == [ what |-> "", file |-> << >> ]

\* the scratch directory is not part of the run
wd_unused == << >>

\* the working directory when nothing else is chosen
default_workdir == "."

\* no dispatcher is active
mpi_idle == [ todo |-> <<>>, done |-> <<>>, nodes |-> <<>> ]
omp_idle == [ next |-> 1, lock |-> 0, th |-> <<>> ]

InitEngine(configs, sizes) ==
  /\ P \in configs
  /\ data \in sizes
  /\ runtype = "NRG"
  /\ ndxN = firstndx
  /\ pc = "iterate"
  /\ diagprev = diag0(data)
  /\ hmat = NoDiag
  /\ diag = NoDiag
  /\ diagratio = P.diagratio
  /\ nattempt = 0
  /\ notenough = FALSE
  /\ stats = [ Egs |-> 0, total_energy |-> 0, GS_energy |-> 0,
               abs_Egs |-> [ n \in 0 .. Nlen - 1 |-> 0 ] ]
  /\ dm = [ n \in 0 .. AllStepsSize - 1 |-> NoDiag ]
  /\ files = [ n \in 0 .. Nlen - 1 |-> NoDiag ]
  /\ phases = [ n \in 0 .. Nlen - 1 |-> {} ]
  /\ diagnew = NoDiag
  /\ mpi = mpi_idle
  /\ inbox = [ w \in 1 .. P.mpisize - 1 |-> <<>> ]
  /\ outbox = [ w \in 1 .. P.mpisize - 1 |-> <<>> ]
  /\ wk = [ w \in 1 .. P.mpisize - 1 |-> [ st |-> "run", DP |-> 0 ] ]
  /\ omp = omp_idle
  /\ fsys = fsys_init
  /\ error = NoError

InitFrom(configs, sizes) == InitEngine(configs, sizes) /\ wd = wd_unused

Init        == InitFrom(RunConfigs \cup ResumeConfigs \cup StallConfigs \cup CfsConfigs, TypicalData)
InitTrunc   == InitFrom(TruncConfigs, SmallData)
InitRestart == InitFrom(RestartConfigs, DenseData)

\* ============================================================== actions
\* The spectra of the Hamiltonian blocks of one step (the matrices that
\* prepare_task_for_diag builds from opch and coef).  Ladder(n, e0): the
\* equidistant spectrum e0, e0 + 1, ... cut at the top of the alphabet.
Ladder(n, e0) == [ i \in 1 .. n |-> Min2(MaxE, e0 + i - 1) ]
Flat(n, e0)   == [ i \in 1 .. n |-> e0 ]

\* family "ladder": every block is a ladder; family "any": the block of the
\* even subspace is any ascending sequence over the energy alphabet, the
\* other one is a ladder or fully degenerate.
Blocks(dprev, family) ==
  LET T    == TaskSet(dprev)
      n(I) == rm_total(I, dprev)
  IN  IF family = "ladder"
      THEN { [ I \in T |-> Ladder(n(I), e[I]) ] : e \in [ T -> 0 .. 1 ] }
      ELSE { [ I \in T |-> IF I = 1 THEN h
                            ELSE IF f THEN Flat(n(I), e0) ELSE Ladder(n(I), e0) ] :
               h \in SortedSeqs(n(1), 0), e0 \in 0 .. 1, f \in BOOLEAN }

\* the unitary<N> blob an interrupted earlier run (same input, diagratio
\* P.prevratio) has left in the working directory
stored_blob(hm) ==
  LET d == diagonalisations(hm, P.prevratio)
  IN  truncate_prepare(subtract_Egs(d, find_groundstate(d)), step_last, P)

\* iterate(): QSrmax of the previous shell, the blocks of this step (the
\* matrices prepare_task_for_diag builds from opch and coef are the input),
\* and the preamble of do_diag.
Iterate ==
  /\ pc = "iterate"
  /\ ~ZBW
  /\ ~step_end
  /\ \A I \in TaskSet(diagprev) : rm_total(I, diagprev) <= MaxDim
  /\ IF step_nrg
     THEN \E hm \in Blocks(diagprev, P.inputs) :
            /\ hmat' = hm
            /\ files' = IF resumed THEN [ files EXCEPT ![ndxN] = stored_blob(hm) ] ELSE files
     ELSE hmat' = NoDiag /\ files' = files
  /\ diagratio' = P.diagratio
  /\ nattempt' = 0
  /\ notenough' = FALSE
  /\ diag' = NoDiag
  /\ phases' = Done("begin")
  /\ pc' = "do_diag"
  /\ UNCHANGED << P, data, runtype, ndxN, diagprev, stats, dm >>
  /\ UNCHANGED dvars
  /\ UNCHANGED xvars

\* the DiagInfo one pass of the retry loop starts from
attempt_source ==
  IF step_dmnrg \/ resumed THEN files[ndxN]
  ELSE diagonalisations(hmat, diagratio)

\* ... after find_groundstate and subtract_Egs
attempt_shifted ==
  IF step_nrg THEN subtract_Egs(attempt_source, find_groundstate(attempt_source))
  ELSE attempt_source

\* ... after truncate_prepare
attempt_diag == truncate_prepare(attempt_shifted, step_last, P)

attempt_notenough ==
  NotEnough(attempt_diag, highest_retained_energy(attempt_shifted, P))

\* the catch clause of do_diag: restart the step or leave the loop
retry_after_notenough == step_nrg /\ P.restart

\* variant: without a restart the step is given up unless it is the last
catch_NotEnough_abort ==
  IF retry_after_notenough THEN "do_diag"
  ELSE IF step_last THEN "after_diag" ELSE "aborted"

\* the position of the run after the catch clause
catch_NotEnough == IF retry_after_notenough THEN "do_diag" ELSE "after_diag"

\* variant: diagratio grows by one tenth per restart
next_diagratio_slow(r) == Min2(r + 1, DiagDen)

next_diagratio(r) == Min2(r * P.restartfactor, DiagDen)

\* the blobs one pass of the retry loop reads from disk, and the outcome
diag_blobs == IF step_dmnrg \/ resumed THEN << Blob("unitary", ndxN) >> ELSE << >>
diag_load  == load_result(fsys, diag_blobs, step_dmnrg /\ P.removefiles)

\* variant: the total energy is updated inside the retry loop
set_Egs_accumulate(st, egs) ==
  [ st EXCEPT !.Egs = egs, !.total_energy = @ + egs * step_scale ]

\* stats.Egs = diag.find_groundstate()
set_Egs(st, egs) == [ st EXCEPT !.Egs = egs ]

\* one pass through the body of do_diag's retry loop
DoDiag ==
  /\ pc = "do_diag"
  /\ nattempt < MaxAttempts
  /\ fsys' = diag_load.fs
  /\ error' = diag_load.err
  /\ IF diag_load.err # NoError
     THEN /\ pc' = "error"
          /\ UNCHANGED << stats, diag, diagratio, nattempt, notenough, phases >>
     ELSE /\ stats' = set_Egs(stats, find_groundstate(attempt_source))
          /\ IF hre_aborts(attempt_shifted, P)
             THEN /\ pc' = "aborted"
                  /\ diag' = attempt_shifted
                  /\ UNCHANGED << diagratio, nattempt, notenough, phases >>
             ELSE /\ diag' = attempt_diag
                  /\ notenough' = attempt_notenough
                  /\ pc' = IF attempt_notenough THEN catch_NotEnough ELSE "after_diag"
                  /\ IF attempt_notenough /\ retry_after_notenough
                     THEN /\ diagratio' = next_diagratio(diagratio)
                          /\ nattempt' = nattempt + 1
                          /\ UNCHANGED phases
                     ELSE /\ phases' = Done("diag")
                          /\ UNCHANGED << diagratio, nattempt >>
  /\ UNCHANGED << P, data, runtype, ndxN, diagprev, hmat, dm, files, wd >>
  /\ UNCHANGED dvars

\* variant: the ground-state shift is accumulated in the first pass only
add_Egs_first_pass(total) == IF step_nrg THEN total + stats.Egs * step_scale ELSE total

\* stats.total_energy += stats.Egs * step.scale()
add_Egs(total) == total + stats.Egs * step_scale

\* DiagInfo::save / DensMatElements::save throw when the file is not open
\* and when the stream is bad after a write; the stream is not looked at
\* after it has been closed
save_throws(err) == err.what \in {"Can't open file for writing", "Error writing"}

\* the working directory after a save with outcome err: the file exists
\* once it has been opened
saved(fs, err, fn) ==
  [ fs EXCEPT !.present = IF err.what = "Can't open file for writing" THEN @ ELSE @ \cup {fn},
              !.written = IF err.what = "Can't open file for writing" THEN @ ELSE @ \cup {fn},
              !.failed  = IF err = NoError THEN @ \ {fn} ELSE @ \cup {fn} ]

\* diag.save is called in the first pass of a run with a second pass
saves_unitary == step_nrg /\ P.dm /\ ~resumed

\* after_diag, first part: total energy, absolute energies, the
\* transformation blob (the write succeeds or fails), the measurements
\* before the truncation
AfterDiagMeasure ==
  /\ pc = "after_diag"
  /\ stats' = [ stats EXCEPT !.total_energy = add_Egs(@),
                           !.abs_Egs[ndxN] = stats.Egs * step_scale ]
  /\ \E err \in IF saves_unitary THEN {NoError} \cup WriteErrors(Blob("unitary", ndxN))
                 ELSE {NoError} :
       IF save_throws(err)
       THEN /\ pc' = "error"
            /\ error' = err
            /\ fsys' = saved(fsys, err, Blob("unitary", ndxN))
            /\ UNCHANGED << files, phases >>
       ELSE /\ files' = IF saves_unitary /\ err = NoError
                        THEN [ files EXCEPT ![ndxN] = diag ] ELSE files
            /\ fsys' = IF saves_unitary THEN saved(fsys, err, Blob("unitary", ndxN)) ELSE fsys
            /\ phases' = Done("measure")
            /\ pc' = pc_after("after_diag")
            /\ error' = error
  /\ UNCHANGED << P, data, runtype, ndxN, diagprev, hmat, diag, diagratio, nattempt, notenough, dm, wd >>
  /\ UNCHANGED dvars

split_in_blocks(d) == [ I \in DOMAIN d |-> [ d[I] EXCEPT !.blocks = getnrcomputed(d[I]) ] ]

SplitInBlocks ==
  /\ pc = "split"
  /\ diag' = IF ZBW THEN diag ELSE split_in_blocks(diag)
  /\ phases' = IF ZBW THEN phases ELSE Done("split")
  /\ pc' = pc_after("split")
  /\ UNCHANGED << P, data, runtype, ndxN, diagprev, hmat, diagratio, nattempt, notenough, stats, dm, files >>
  /\ UNCHANGED dvars
  /\ UNCHANGED xvars

\* variant: the density matrices of the next step are loaded
rho_blobs_next ==
  IF step_dmnrg
  THEN (IF P.need_rho THEN << Blob("rho", ndxN + 1) >> ELSE << >>)
       \o (IF P.need_rhoFDM THEN << Blob("rhoFDM", ndxN + 1) >> ELSE << >>)
  ELSE << >>

\* the density-matrix blobs calculate_spectral_and_expv loads, in order
rho_blobs ==
  IF step_dmnrg
  THEN (IF P.need_rho THEN << Blob("rho", ndxN) >> ELSE << >>)
       \o (IF P.need_rhoFDM THEN << Blob("rhoFDM", ndxN) >> ELSE << >>)
  ELSE << >>
rho_load == load_result(fsys, rho_blobs, P.removefiles)

\* calculate_spectral_and_expv, when called (the loads may throw)
Spectral(called, ph, p) ==
  IF called /\ rho_load.err # NoError
  THEN /\ pc' = "error"
       /\ error' = rho_load.err
       /\ fsys' = rho_load.fs
       /\ UNCHANGED phases
  ELSE /\ pc' = pc_after(p)
       /\ error' = error
       /\ fsys' = IF called THEN rho_load.fs ELSE fsys
       /\ phases' = IF called THEN Done(ph) ELSE phases

\* recalculate_operators + calculate_spectral_and_expv with all states
RecalcAll ==
  /\ pc = "recalc_all"
  /\ Spectral(do_recalc_all, "recalc", "recalc_all")
  /\ UNCHANGED << P, data, runtype, ndxN, diagprev, hmat, diag, diagratio, nattempt, notenough, stats, dm, files, wd >>
  /\ UNCHANGED dvars

TruncatePerform ==
  /\ pc = "truncate"
  /\ diag' = IF ZBW THEN diag ELSE truncate_perform(diag)
  /\ phases' = IF ZBW THEN phases ELSE Done("truncate")
  /\ pc' = pc_after("truncate")
  /\ UNCHANGED << P, data, runtype, ndxN, diagprev, hmat, diagratio, nattempt, notenough, stats, dm, files >>
  /\ UNCHANGED dvars
  /\ UNCHANGED xvars

\* my_assert(Nbegin <= ndx && ndx < Nend) of AllSteps::store
store_in_range(ndx) == firstndx <= ndx /\ ndx < AllStepsNend

\* AllSteps::store
dm_store(d, last) ==
  [ I \in DOMAIN d |-> [ kept |-> getnrkept(d[I]), total |-> getdim(d[I]), eig |-> d[I], last |-> last ] ]

DMStore ==
  /\ pc = "dm_store"
  /\ IF store_in_range(ndxN)
     THEN /\ dm' = [ dm EXCEPT ![ndxN] = dm_store(diag, step_last) ]
          /\ phases' = Done("dm_store")
          /\ pc' = pc_after("dm_store")
     ELSE /\ pc' = "aborted"
          /\ UNCHANGED << dm, phases >>
  /\ UNCHANGED << P, data, runtype, ndxN, diagprev, hmat, diag, diagratio, nattempt, notenough, stats, files >>
  /\ UNCHANGED dvars
  /\ UNCHANGED xvars

RecalcIrreducible ==
  /\ pc = "recalc_irr"
  /\ phases' = IF ~step_last THEN Done("recalc_f") ELSE phases
  /\ pc' = pc_after("recalc_irr")
  /\ UNCHANGED << P, data, runtype, ndxN, diagprev, hmat, diag, diagratio, nattempt, notenough, stats, dm, files >>
  /\ UNCHANGED dvars
  /\ UNCHANGED xvars

\* recalculate_operators + calculate_spectral_and_expv with the kept states
RecalcKept ==
  /\ pc = "recalc_kept"
  /\ Spectral(do_recalc_kept \/ do_recalc_none,
              IF do_recalc_none THEN "spectral" ELSE "recalc", "recalc_kept")
  /\ UNCHANGED << P, data, runtype, ndxN, diagprev, hmat, diag, diagratio, nattempt, notenough, stats, dm, files, wd >>
  /\ UNCHANGED dvars

\* the tail of iterate() and the increment of nrg_loop
EndIterate ==
  /\ pc = "trim"
  /\ ~ZBW
  /\ diagprev' = clear_eigenvectors(diag)
  /\ diag' = NoDiag
  /\ hmat' = NoDiag
  /\ phases' = Done("trim")
  /\ ndxN' = step_next(ndxN)
  /\ pc' = "iterate"
  /\ UNCHANGED << P, data, runtype, diagratio, nattempt, notenough, stats, dm, files >>
  /\ UNCHANGED dvars
  /\ UNCHANGED xvars

\* exit1 ends the program: nothing of the calculation runs after it
exit1 == "stopped"

\* the position after run_nrg has returned: the stopafter breakpoint of
\* the first pass (exit1), the second pass, or the end of the constructor
after_pass ==
  IF step_nrg
  THEN IF P.stopafter = "nrg" THEN exit1 ELSE IF P.dm THEN "second" ELSE "done"
  ELSE "done"

\* the end of run_nrg: the loop has ended
EndPass ==
  /\ pc = "iterate"
  /\ step_end
  /\ ~ZBW
  /\ stats' = [ stats EXCEPT !.GS_energy = stats.total_energy ]
  /\ ndxN' = lastndx
  /\ pc' = after_pass
  /\ UNCHANGED << P, data, runtype, diagprev, hmat, diag, diagratio, nattempt, notenough, dm, files, phases >>
  /\ UNCHANGED dvars
  /\ UNCHANGED xvars

\* the density-matrix blobs written between the passes: rho<lastndx> and
\* rhoFDM<lastndx> by the constructor, those of the earlier steps by
\* calc_densitymatrix and calc_fulldensitymatrix
rho_written ==
  (IF P.need_rho THEN { Blob("rho", n) : n \in 0 .. Nlen - 1 } ELSE {})
  \cup (IF P.need_rhoFDM THEN { Blob("rhoFDM", n) : n \in 0 .. Nlen - 1 } ELSE {})
rho_saved ==
  (IF P.need_rho THEN { Blob("rho", lastndx) } ELSE {})
  \cup (IF P.need_rhoFDM THEN { Blob("rhoFDM", lastndx) } ELSE {})

rho_save(fs) == [ fs EXCEPT !.present = @ \cup rho_written, !.written = @ \cup rho_written ]

\* the constructor between the passes: the density matrices (a save may
\* throw), the stopafter breakpoint, the second read_data and the DMNRG Step
StartDMNRG ==
  /\ pc = "second"
  /\ \E err \in {NoError} \cup UNION { WriteErrors(fn) : fn \in rho_saved } :
       IF save_throws(err)
       THEN /\ pc' = "error"
            /\ error' = err
            /\ fsys' = saved(fsys, err, err.file)
            /\ UNCHANGED << runtype, ndxN, diagprev, stats, phases >>
       ELSE /\ error' = error
            /\ fsys' = IF err = NoError
                       THEN rho_save(fsys)
                       ELSE saved(rho_save(fsys), err, err.file)
            /\ IF P.stopafter = "rho"
               THEN /\ pc' = exit1
                    /\ UNCHANGED << runtype, ndxN, diagprev, stats, phases >>
               ELSE /\ runtype' = "DMNRG"
                    /\ ndxN' = firstndx
                    /\ diagprev' = diag0(data)
                    /\ stats' = [ stats EXCEPT !.total_energy = 0 ]
                    /\ phases' = [ n \in 0 .. Nlen - 1 |-> {} ]
                    /\ pc' = "iterate"
  /\ UNCHANGED << P, data, hmat, diag, diagratio, nattempt, notenough, dm, files, wd >>
  /\ UNCHANGED dvars

\* variant: the flag file is written however the run has ended
destructor_runs_always == pc \in {"done", "stopped", "error", "aborted"}

\* ~NRG_calculation runs when the constructor has returned; not after
\* exit1, and not when the constructor has thrown
destructor_runs == pc = "done"

\* ~NRG_calculation: the DONE flag file
Finish ==
  /\ destructor_runs
  /\ pc' = "exited"
  /\ fsys' = [ fsys EXCEPT !.DONE = @ \/ P.done ]
  /\ UNCHANGED << P, data, runtype, ndxN, diagprev, hmat, diag, diagratio, nattempt, notenough,
                  stats, dm, files, phases, error, wd >>
  /\ UNCHANGED dvars

Next ==
  \/ Iterate
  \/ DoDiag
  \/ AfterDiagMeasure
  \/ SplitInBlocks
  \/ RecalcAll
  \/ TruncatePerform
  \/ DMStore
  \/ RecalcIrreducible
  \/ RecalcKept
  \/ EndIterate
  \/ EndPass
  \/ StartDMNRG
  \/ Finish

Spec        == Init /\ [][Next]_vars
SpecTrunc   == InitTrunc /\ [][Next]_vars
SpecRestart == InitRestart /\ [][Next]_vars

\* runs that differ in what they keep on disk and in where they stop:
\* passes, density matrices, file removal, breakpoint, flag file, resume
FileConfigs ==
  { [ BaseConfig EXCEPT !.Nmax = n, !.dm = f[1], !.need_rho = f[2], !.need_rhoFDM = f[3],
                        !.removefiles = f[4], !.strategy = st,
                        !.stopafter = sa, !.done = dn,
                        !.resume = rs, !.laststored = IF rs THEN 0 ELSE -1 ] :
      n \in {1, MaxN},
      f \in { <<FALSE, FALSE, FALSE, TRUE>>, <<TRUE, TRUE, FALSE, TRUE>>,
              <<TRUE, TRUE, TRUE, TRUE>>, <<TRUE, TRUE, TRUE, FALSE>>,
              <<TRUE, FALSE, TRUE, TRUE>> },
      st \in {"kept", "all"}, sa \in {"", "nrg", "rho"}, dn \in BOOLEAN, rs \in BOOLEAN }

FileData  == { sz \in AllData : sz[1] = sz[2] }
InitFiles == InitFrom(FileConfigs, FileData)
SpecFiles == InitFiles /\ [][Next]_vars

\* ------------------------------------------------ the working directory
\* the environment and the argument of set_workdir; << >> is an unset
\* variable, "" an empty argument
EnvValues == { << >>, << "/scratch" >> }
ArgValues == { "", "/data" }

\* the blobs a run may write
WdBlobs == { Blob(prefix, n) : prefix \in {"unitary", "rho"}, n \in 0 .. MaxN - 1 }

\* set_workdir: the directory handed to Workdir
set_workdir_dir(env, dir_) ==
  IF dir_ # "" THEN dir_ ELSE IF env # << >> THEN env[1] ELSE default_workdir

\* dtemp(dir).value_or(default_workdir): mkdtemp has made dir/XXXXXX, or
\* it has failed and the working directory is default_workdir itself
dtemp_or_default(dir, made) ==
  IF made THEN [ dir |-> dir, sub |-> "XXXXXX" ] ELSE [ dir |-> default_workdir, sub |-> "" ]

\* variant: the directory goes away with everything in it
remove_dir_all(dirs, content, w) == dirs \ {w}

\* NRG::remove on a directory: std::remove removes it only if it is empty
\* (and never ".")
remove_dir(dirs, content, w) ==
  IF w.sub # "" /\ ~(\E f \in content : f.in = w) THEN dirs \ {w} ELSE dirs

InitWorkdir ==
  /\ InitEngine({BaseConfig}, {[ I \in Invars |-> 1 ]})
  /\ wd \in { [ st |-> "start", env |-> e, arg |-> a, removefiles |-> r, made |-> FALSE,
                 root |-> "", workdir |-> [ dir |-> "", sub |-> "" ],
                 dirs |-> {}, content |-> {}, written |-> {} ] :
               e \in EnvValues, a \in ArgValues, r \in BOOLEAN }

\* set_workdir and the constructor of Workdir
SetWorkdir ==
  /\ wd.st = "start"
  /\ \E made \in BOOLEAN :
       LET dir == set_workdir_dir(wd.env, wd.arg)
           w   == dtemp_or_default(dir, made)
       IN  wd' = [ wd EXCEPT !.st = "running", !.root = dir, !.made = made, !.workdir = w,
                             !.dirs = IF made THEN {w} ELSE {} ]
  /\ UNCHANGED << P, ndxN, pc, hmat, diag, diagratio, fsys, error >>
  /\ UNCHANGED evars
  /\ UNCHANGED dvars

\* a save: the file name is unitaryfn(N) or rhofn(N, prefix)
WdSave ==
  /\ wd.st = "running"
  /\ \E b \in WdBlobs :
       LET f == [ in |-> wd.workdir, name |-> b ]
       IN  wd' = [ wd EXCEPT !.content = @ \cup {f}, !.written = @ \cup {f} ]
  /\ UNCHANGED << P, ndxN, pc, hmat, diag, diagratio, fsys, error >>
  /\ UNCHANGED evars
  /\ UNCHANGED dvars

\* a load of the second pass: the file is removed if removefiles is set
WdLoad ==
  /\ wd.st = "running"
  /\ \E f \in wd.content :
       wd' = [ wd EXCEPT !.content = IF wd.removefiles THEN @ \ {f} ELSE @ ]
  /\ UNCHANGED << P, ndxN, pc, hmat, diag, diagratio, fsys, error >>
  /\ UNCHANGED evars
  /\ UNCHANGED dvars

\* ~Workdir: remove_at_exit is true, remove_workdir
WdExit ==
  /\ wd.st = "running"
  /\ wd' = [ wd EXCEPT !.st = "exited",
                        !.dirs = remove_dir(@, wd.content, wd.workdir) ]
  /\ UNCHANGED << P, ndxN, pc, hmat, diag, diagratio, fsys, error >>
  /\ UNCHANGED evars
  /\ UNCHANGED dvars

NextWorkdir ==
  \/ SetWorkdir
  \/ WdSave
  \/ WdLoad
  \/ WdExit

SpecWorkdir == InitWorkdir /\ [][NextWorkdir]_vars

\* ------------------------------------------------- zero-bandwidth runs
\* run_nrg calls nrg_ZBW in place of nrg_loop when P.ZBW holds
ZBWConfigs ==
  { [ BaseConfig EXCEPT !.Nmax = 0, !.keep = k, !.dm = d, !.strategy = st, !.lastall = la ] :
      k \in {1, 2, KeepAll}, d \in BOOLEAN, st \in {"kept", "all"}, la \in BOOLEAN }

InitZBW == InitFrom(ZBWConfigs, AllData)

\* the DiagInfo nrg_ZBW starts from: diag0, or the blob read from disk
zbw_source == IF step_nrg THEN diagprev ELSE files[firstndx]

zbw_shifted ==
  IF step_nrg THEN subtract_Egs(zbw_source, find_groundstate(zbw_source))
  ELSE zbw_source

\* nrg_ZBW up to the call of after_diag: set_ZBW and the do_diag equivalent
\* (a NotEnough thrown here is not caught)
NrgZBW ==
  /\ pc = "iterate"
  /\ ZBW
  /\ ndxN' = firstndx
  /\ LET zbw_load == load_result(fsys, IF step_dmnrg THEN << Blob("unitary", firstndx) >> ELSE << >>,
                                 P.removefiles)
     IN  /\ fsys' = zbw_load.fs
         /\ error' = zbw_load.err
         /\ IF zbw_load.err # NoError
            THEN /\ pc' = "error"
                 /\ UNCHANGED << stats, diag, phases >>
            ELSE /\ stats' = [ stats EXCEPT !.Egs = find_groundstate(zbw_source) ]
                 /\ IF \/ hre_aborts(zbw_shifted, P)
                       \/ NotEnough(truncate_prepare(zbw_shifted, TRUE, P),
                                    highest_retained_energy(zbw_shifted, P))
                    THEN /\ pc' = "aborted"
                         /\ diag' = zbw_shifted
                         /\ UNCHANGED phases
                    ELSE /\ pc' = "after_diag"
                         /\ diag' = truncate_prepare(zbw_shifted, TRUE, P)
                         /\ phases' = [ phases EXCEPT ![firstndx] = @ \cup {"diag"} ]
  /\ UNCHANGED << P, data, runtype, diagprev, hmat, diagratio, nattempt, notenough, dm, files, wd >>
  /\ UNCHANGED dvars

\* the return of nrg_ZBW and the end of run_nrg
EndZBW ==
  /\ pc = "trim"
  /\ ZBW
  /\ stats' = [ stats EXCEPT !.GS_energy = stats.total_energy ]
  /\ pc' = after_pass
  /\ UNCHANGED << P, data, runtype, ndxN, diagprev, hmat, diag, diagratio, nattempt, notenough, dm, files, phases >>
  /\ UNCHANGED dvars
  /\ UNCHANGED xvars

NextZBW ==
  \/ NrgZBW
  \/ AfterDiagMeasure
  \/ SplitInBlocks
  \/ RecalcAll
  \/ TruncatePerform
  \/ DMStore
  \/ RecalcIrreducible
  \/ RecalcKept
  \/ EndZBW
  \/ StartDMNRG
  \/ Finish

SpecZBW == InitZBW /\ [][NextZBW]_vars

\* ========================================================== dispatchers
\* The two implementations of diagonalisations(), run by a root that calls
\* them once per step and sends TAG_EXIT when the calculation has
\* returned.  The symmetry of these runs has the subspaces 1 .. MaxTasks.
MaxTasks   == 4    \* largest number of blocks of one step
MaxWorkers == 2    \* largest number of worker ranks (mpiw.size() - 1)
MaxThreads == 2    \* largest value of diagth

\* std::map operator[] followed by an assignment
MapPut(f, k, v) == [ x \in DOMAIN f \cup {k} |-> IF x = k THEN v ELSE f[x] ]

\* the task list of the blocks hm, largest block first
tasks_of(hm) == TaskOrder(DOMAIN hm, [ I \in DOMAIN hm |-> Len(hm[I]) ])

Workers == DOMAIN inbox

Broadcast(box, msg) == [ w \in DOMAIN box |-> Append(box[w], msg) ]

\* ---- configurations and inputs
DiagConfigs ==
  { [ BaseConfig EXCEPT !.Nmax = MaxN, !.diagratio = r, !.diag_mode = "MPI", !.mpisize = sz ] :
      r \in {5, DiagDen}, sz \in 1 .. MaxWorkers + 1 }
  \cup
  { [ BaseConfig EXCEPT !.Nmax = MaxN, !.diagratio = r, !.diag_mode = "OpenMP", !.diagth = th ] :
      r \in {5, DiagDen}, th \in 1 .. MaxThreads }

\* blocks of one or two states, alternating in size; block I is the ladder
\* that starts at I - 1, so that no two blocks have the same spectrum
DiagBlocks ==
  { [ I \in 1 .. n |-> Ladder(1 + ((I + k) % 2), I - 1) ] : n \in 1 .. MaxTasks, k \in 0 .. 1 }

InitDiag ==
  /\ P \in DiagConfigs
  /\ data = [ I \in Invars |-> 1 ]
  /\ runtype = "NRG"
  /\ ndxN = firstndx
  /\ pc = "call"
  /\ diagprev = NoDiag
  /\ hmat = NoDiag
  /\ diag = NoDiag
  /\ diagratio = P.diagratio
  /\ nattempt = 0
  /\ notenough = FALSE
  /\ stats = [ Egs |-> 0, total_energy |-> 0, GS_energy |-> 0,
               abs_Egs |-> [ n \in 0 .. Nlen - 1 |-> 0 ] ]
  /\ dm = [ n \in 0 .. AllStepsSize - 1 |-> NoDiag ]
  /\ files = [ n \in 0 .. Nlen - 1 |-> NoDiag ]
  /\ phases = [ n \in 0 .. Nlen - 1 |-> {} ]
  /\ diagnew = NoDiag
  /\ mpi = mpi_idle
  /\ inbox = [ w \in 1 .. P.mpisize - 1 |-> <<>> ]
  /\ outbox = [ w \in 1 .. P.mpisize - 1 |-> <<>> ]
  /\ wk = [ w \in 1 .. P.mpisize - 1 |-> [ st |-> "run", DP |-> 0 ] ]
  /\ omp = omp_idle
  /\ fsys = fsys_init
  /\ error = NoError
  /\ wd = wd_unused

\* ---- the root: diagonalisations()
\* variant: the parameters advertised are those of the first attempt
sync_msg_first(DP) == [ tag |-> "SYNC", DP |-> P.diagratio ]

\* send_params: TAG_SYNC and the broadcast of the DiagParams
sync_msg(DP) == [ tag |-> "SYNC", DP |-> DP ]

\* the call of diagonalisations for the blocks of the step: send_params
\* and the set-up of todo, done and nodes, or the start of the parallel loop
DiagCall ==
  /\ pc = "call"
  /\ ~step_end
  /\ \E hm \in IF notenough THEN {hmat} ELSE DiagBlocks :
       /\ hmat' = hm
       /\ IF P.diag_mode = "MPI"
          THEN /\ inbox' = Broadcast(inbox, sync_msg(diagratio))
               /\ mpi' = [ todo  |-> tasks_of(hm), done |-> <<>>,
                           nodes |-> [ i \in 1 .. P.mpisize |-> i - 1 ] ]
               /\ pc' = "sched"
               /\ UNCHANGED omp
          ELSE /\ omp' = [ next |-> 1, lock |-> 0,
                           th |-> [ t \in 1 .. P.diagth |-> [ st |-> "idle" ] ] ]
               /\ pc' = "omp"
               /\ UNCHANGED << mpi, inbox >>
  /\ diagnew' = NoDiag
  /\ diag' = NoDiag
  /\ notenough' = FALSE
  /\ UNCHANGED << P, ndxN, diagratio, outbox, wk >>
  /\ UNCHANGED << data, runtype, diagprev, nattempt, stats, dm, files, phases >>
  /\ UNCHANGED xvars

\* read_from: the head of the results sent by rank w
read_from(w) == Head(outbox[w])

\* variant: the node is read from the back of the deque and stays in it
nodes_rest_peek(nodes) == nodes

\* get_back(nodes): the deque without the node taken
nodes_rest(nodes) == Prefix(nodes, Len(nodes) - 1)

\* variant: the task goes to the node at the back of the deque
pick_node_back(todo, nodes) == nodes[Len(nodes)]

\* i = todo.size() != 1 ? get_back(nodes) : 0
pick_node(todo, nodes) == IF Len(todo) # 1 THEN nodes[Len(nodes)] ELSE 0

\* variant: the task sent to a worker is read from the list, not taken
todo_rest_peek(todo, i) == IF i = 0 THEN Prefix(todo, Len(todo) - 1) ELSE todo

\* get_back(todo) on the root, get_front(todo) for a worker: the list
\* without the task taken
todo_rest(todo, i) == IF i = 0 THEN Prefix(todo, Len(todo) - 1) ELSE Tail(todo)

\* one pass of the scheduling loop up to the probe for finished jobs
Schedule ==
  /\ pc = "sched"
  /\ mpi.todo # <<>>
  /\ LET pop   == Len(mpi.todo) # 1
         i     == pick_node(mpi.todo, mpi.nodes)
         nodes == IF pop THEN nodes_rest(mpi.nodes) ELSE mpi.nodes
         I     == IF i = 0 THEN mpi.todo[Len(mpi.todo)] ELSE Head(mpi.todo)
         todo  == todo_rest(mpi.todo, i)
     IN  IF i = 0
         THEN /\ diagnew' = MapPut(diagnew, I, diagonalise(hmat[I], diagratio))
              /\ mpi' = [ todo |-> todo, done |-> Append(mpi.done, I), nodes |-> Append(nodes, 0) ]
              /\ UNCHANGED inbox
         ELSE /\ inbox' = [ inbox EXCEPT ![i] = Append(@, [ tag |-> "DIAG", I |-> I, m |-> hmat[I] ]) ]
              /\ mpi' = [ mpi EXCEPT !.todo = todo, !.nodes = nodes ]
              /\ UNCHANGED diagnew
  /\ pc' = "poll"
  /\ UNCHANGED << P, ndxN, hmat, diag, diagratio, outbox, wk, omp >>
  /\ UNCHANGED evars
  /\ UNCHANGED xvars

\* iprobe finds the results of a rank: read them, the rank is free again
PollRead ==
  /\ pc = "poll"
  /\ \E w \in Workers :
       /\ outbox[w] # <<>>
       /\ diagnew' = MapPut(diagnew, read_from(w).I, read_from(w).eig)
       /\ mpi' = [ mpi EXCEPT !.done = Append(@, read_from(w).I), !.nodes = Append(@, w) ]
       /\ outbox' = [ outbox EXCEPT ![w] = Tail(@) ]
  /\ UNCHANGED << P, ndxN, pc, hmat, diag, diagratio, inbox, wk, omp >>
  /\ UNCHANGED evars
  /\ UNCHANGED xvars

\* iprobe finds nothing (no results, or none that have arrived yet)
PollNone ==
  /\ pc = "poll"
  /\ pc' = IF mpi.todo # <<>> THEN "sched" ELSE "drain"
  /\ UNCHANGED << P, ndxN, hmat, diag, diagratio >>
  /\ UNCHANGED dvars
  /\ UNCHANGED evars
  /\ UNCHANGED xvars

\* variant: the final loop does not wait for the outstanding results
all_done_early(done, tasks) == TRUE

\* the exit condition of the final loop
all_done(done, tasks) == Len(done) = Len(tasks)

\* the final loop: the blocking probe returns the results of a rank
DrainRead ==
  /\ pc = "drain"
  /\ ~all_done(mpi.done, tasks_of(hmat))
  /\ \E w \in Workers :
       /\ outbox[w] # <<>>
       /\ diagnew' = MapPut(diagnew, read_from(w).I, read_from(w).eig)
       /\ mpi' = [ mpi EXCEPT !.done = Append(@, read_from(w).I) ]
       /\ outbox' = [ outbox EXCEPT ![w] = Tail(@) ]
  /\ UNCHANGED << P, ndxN, pc, hmat, diag, diagratio, inbox, wk, omp >>
  /\ UNCHANGED evars
  /\ UNCHANGED xvars

MPIReturn ==
  /\ pc = "drain"
  /\ all_done(mpi.done, tasks_of(hmat))
  /\ diag' = diagnew
  /\ pc' = "returned"
  /\ UNCHANGED << P, ndxN, hmat, diagratio >>
  /\ UNCHANGED dvars
  /\ UNCHANGED evars
  /\ UNCHANGED xvars

\* ---- the workers: run_nrg_slave
\* variant: the worker diagonalises in full, whatever the parameters say
slave_diag_full(m, DP) == diagonalise(m, DiagDen)

\* slave_diag: the spectrum sent back for the matrix m
slave_diag(m, DP) == diagonalise(m, DP)

Receivable(w, tag) ==
  /\ wk[w].st = "run"
  /\ inbox[w] # <<>>
  /\ Head(inbox[w]).tag = tag

WorkerSync(w) ==
  /\ Receivable(w, "SYNC")
  /\ wk' = [ wk EXCEPT ![w].DP = Head(inbox[w]).DP ]
  /\ inbox' = [ inbox EXCEPT ![w] = Tail(@) ]
  /\ UNCHANGED << P, ndxN, pc, hmat, diag, diagratio, diagnew, mpi, outbox, omp >>
  /\ UNCHANGED evars
  /\ UNCHANGED xvars

WorkerDiag(w) ==
  /\ Receivable(w, "DIAG")
  /\ outbox' = [ outbox EXCEPT ![w] =
                   Append(@, [ tag |-> "EIGEN", I |-> Head(inbox[w]).I,
                               eig |-> slave_diag(Head(inbox[w]).m, wk[w].DP) ]) ]
  /\ inbox' = [ inbox EXCEPT ![w] = Tail(@) ]
  /\ UNCHANGED << P, ndxN, pc, hmat, diag, diagratio, diagnew, mpi, wk, omp >>
  /\ UNCHANGED evars
  /\ UNCHANGED xvars

WorkerExit(w) ==
  /\ Receivable(w, "EXIT")
  /\ wk' = [ wk EXCEPT ![w].st = "exited" ]
  /\ inbox' = [ inbox EXCEPT ![w] = Tail(@) ]
  /\ UNCHANGED << P, ndxN, pc, hmat, diag, diagratio, diagnew, mpi, outbox, omp >>
  /\ UNCHANGED evars
  /\ UNCHANGED xvars

\* ---- check_status
\* the message written by check_status on the rank that saw the error
MPIError(rank) == [ what |-> "MPI communication error", file |-> << rank >> ]

\* variant: only the calling process ends
abort_self(wkk, rank) ==
  [ w \in DOMAIN wkk |-> IF w = rank THEN [ wkk[w] EXCEPT !.st = "aborted" ] ELSE wkk[w] ]

\* mpienv.abort(1): every process of the job ends
abort(wkk, rank) == [ w \in DOMAIN wkk |-> [ wkk[w] EXCEPT !.st = "aborted" ] ]

\* a recv of read_from on the root returns a status with an error
RootRecvError ==
  /\ pc \in {"poll", "drain"}
  /\ \E w \in Workers : outbox[w] # <<>>
  /\ error' = MPIError(0)
  /\ wk' = abort(wk, 0)
  /\ pc' = "mpi_abort"
  /\ UNCHANGED << P, ndxN, hmat, diag, diagratio, diagnew, mpi, inbox, outbox, omp, fsys, wd >>
  /\ UNCHANGED evars

\* a recv of run_nrg_slave or slave_diag on rank w returns a status with
\* an error
WorkerRecvError(w) ==
  /\ wk[w].st = "run"
  /\ inbox[w] # <<>>
  /\ error' = MPIError(w)
  /\ wk' = abort(wk, w)
  /\ pc' = "mpi_abort"
  /\ UNCHANGED << P, ndxN, hmat, diag, diagratio, diagnew, mpi, inbox, outbox, omp, fsys, wd >>
  /\ UNCHANGED evars

\* ---- the threads: diagonalisations_OpenMP
\* variant: the region is entered whether or not another thread is in it
critical_ignored(lock) == TRUE

\* #pragma omp critical: the region can be entered
critical_free(lock) == lock = 0

Thread(t) == omp.th[t]

\* schedule(dynamic): the thread takes the next iteration of the loop and
\* builds the block
ThreadGrab(t) ==
  /\ pc = "omp"
  /\ Thread(t).st = "idle"
  /\ omp.next <= Len(tasks_of(hmat))
  /\ omp' = [ omp EXCEPT !.next = @ + 1,
                          !.th[t] = [ st |-> "log", I |-> tasks_of(hmat)[omp.next] ] ]
  /\ UNCHANGED << P, ndxN, pc, hmat, diag, diagratio, diagnew, mpi, inbox, outbox, wk >>
  /\ UNCHANGED evars
  /\ UNCHANGED xvars

\* the log line (first critical region) and the diagonalisation
ThreadDiag(t) ==
  /\ pc = "omp"
  /\ Thread(t).st = "log"
  /\ critical_free(omp.lock)
  /\ omp' = [ omp EXCEPT !.th[t] = [ st |-> "ready", I |-> Thread(t).I,
                                      e |-> diagonalise(hmat[Thread(t).I], diagratio) ] ]
  /\ UNCHANGED << P, ndxN, pc, hmat, diag, diagratio, diagnew, mpi, inbox, outbox, wk >>
  /\ UNCHANGED evars
  /\ UNCHANGED xvars

\* the second critical region is entered: the insertion starts from the
\* map as it is now
ThreadEnter(t) ==
  /\ pc = "omp"
  /\ Thread(t).st = "ready"
  /\ critical_free(omp.lock)
  /\ omp' = [ omp EXCEPT !.lock = t,
                          !.th[t] = [ st |-> "insert", I |-> Thread(t).I, e |-> Thread(t).e,
                                      map |-> diagnew ] ]
  /\ UNCHANGED << P, ndxN, pc, hmat, diag, diagratio, diagnew, mpi, inbox, outbox, wk >>
  /\ UNCHANGED evars
  /\ UNCHANGED xvars

\* diagnew[I] = e is complete, the region is left
ThreadInsert(t) ==
  /\ pc = "omp"
  /\ Thread(t).st = "insert"
  /\ diagnew' = MapPut(Thread(t).map, Thread(t).I, Thread(t).e)
  /\ omp' = [ omp EXCEPT !.lock = 0, !.th[t] = [ st |-> "idle" ] ]
  /\ UNCHANGED << P, ndxN, pc, hmat, diag, diagratio, mpi, inbox, outbox, wk >>
  /\ UNCHANGED evars
  /\ UNCHANGED xvars

\* the join at the end of the parallel loop
OMPReturn ==
  /\ pc = "omp"
  /\ omp.next > Len(tasks_of(hmat))
  /\ \A t \in DOMAIN omp.th : Thread(t).st = "idle"
  /\ diag' = diagnew
  /\ pc' = "returned"
  /\ UNCHANGED << P, ndxN, hmat, diagratio >>
  /\ UNCHANGED dvars
  /\ UNCHANGED evars
  /\ UNCHANGED xvars

\* ---- the root: the rest of the calculation
\* the step goes on with the spectra returned, then the next step
StepDone ==
  /\ pc = "returned"
  /\ LET shifted == subtract_Egs(diag, find_groundstate(diag))
         thrown  == /\ ~hre_aborts(shifted, P)
                    /\ NotEnough(truncate_prepare(shifted, step_last, P),
                                 highest_retained_energy(shifted, P))
     IN  IF thrown /\ retry_after_notenough
         THEN /\ diagratio' = next_diagratio(diagratio)
              /\ notenough' = TRUE
              /\ ndxN' = ndxN
         ELSE /\ diagratio' = P.diagratio
              /\ notenough' = FALSE
              /\ ndxN' = step_next(ndxN)
  /\ pc' = "call"
  /\ UNCHANGED << P, hmat, diag >>
  /\ UNCHANGED dvars
  /\ UNCHANGED << data, runtype, diagprev, nattempt, stats, dm, files, phases >>
  /\ UNCHANGED xvars

\* the calculation has returned: TAG_EXIT to every worker
MasterDone ==
  /\ pc = "call"
  /\ step_end
  /\ inbox' = Broadcast(inbox, [ tag |-> "EXIT" ])
  /\ pc' = "finished"
  /\ UNCHANGED << P, ndxN, hmat, diag, diagratio, diagnew, mpi, outbox, wk, omp >>
  /\ UNCHANGED evars
  /\ UNCHANGED xvars

NextDiag ==
  \/ DiagCall
  \/ Schedule
  \/ PollRead
  \/ PollNone
  \/ DrainRead
  \/ MPIReturn
  \/ \E w \in Workers : WorkerSync(w)
  \/ \E w \in Workers : WorkerDiag(w)
  \/ \E w \in Workers : WorkerExit(w)
  \/ RootRecvError
  \/ \E w \in Workers : WorkerRecvError(w)
  \/ \E t \in DOMAIN omp.th : ThreadGrab(t)
  \/ \E t \in DOMAIN omp.th : ThreadDiag(t)
  \/ \E t \in DOMAIN omp.th : ThreadEnter(t)
  \/ \E t \in DOMAIN omp.th : ThreadInsert(t)
  \/ OMPReturn
  \/ StepDone
  \/ MasterDone

SpecDiag == InitDiag /\ [][NextDiag]_vars

\* ======================================================= wire protocol
\* The messages of one MPI dispatch, one message per send and one step
\* per receive.  A receive with a tag takes the earliest message of that
\* tag from its source; a receive with any_tag takes the earliest message.
\* The eigenvector matrix of a block of dimension d has nr_computed rows
\* and d columns, the matrix sent to a worker has d rows and d columns.
Units == { "nrg-general.h", "nrg-lib.cc" }

Repeat(x, n) == [ k \in 1 .. n |-> x ]

\* variant: one line per column
send_matrix_cols(size1, size2) ==
  << [ tag |-> "MATRIX_SIZE", v |-> size1 ], [ tag |-> "MATRIX_SIZE", v |-> size2 ] >>
    \o Repeat([ tag |-> "MATRIX_LINE" ], size2)

\* send_matrix: the two sizes, then one line per row
send_matrix(size1, size2) ==
  << [ tag |-> "MATRIX_SIZE", v |-> size1 ], [ tag |-> "MATRIX_SIZE", v |-> size2 ] >>
    \o Repeat([ tag |-> "MATRIX_LINE" ], size1)

\* send_eigen, and mpi_send_eigen_linebyline with its empty Eigen object
send_eigen(unit, eig) ==
  (IF unit = "nrg-lib.cc" THEN << [ tag |-> "EIGEN" ] >> ELSE << >>)
    \o << [ tag |-> "EIGEN_VEC", v |-> eig.value_orig ] >>
    \o send_matrix(getnrcomputed(eig), getdim(eig))

\* the tag the root probes for
probe_tag(unit) == IF unit = "nrg-lib.cc" THEN "EIGEN" ELSE "EIGEN_VEC"

\* the receives of receive_eigen up to the first size of the matrix
receive_eigen(unit) ==
  (IF unit = "nrg-lib.cc" THEN << "EIGEN" >> ELSE << >>) \o << "EIGEN_VEC", "SIZE1" >>

\* the receives of receive_matrix after size1, and the receive of the
\* invariant that follows it in read_from and in slave_diag
receive_rest(size1) == << "SIZE2" >> \o Repeat("MATRIX_LINE", size1) \o << "INVAR" >>

tag_of(step) == IF step \in { "SIZE1", "SIZE2" } THEN "MATRIX_SIZE" ELSE step

\* recv(source, tag) on the queue q: the position of the message taken
match(q, tag) ==
  IF \E k \in 1 .. Len(q) : q[k].tag = tag
  THEN CHOOSE k \in 1 .. Len(q) : q[k].tag = tag /\ \A j \in 1 .. k - 1 : q[j].tag # tag
  ELSE 0

Without(q, k) == [ j \in 1 .. Len(q) - 1 |-> IF j < k THEN q[j] ELSE q[j + 1] ]

WireConfigs ==
  { [ BaseConfig EXCEPT !.Nmax = MaxN, !.diagratio = r, !.diag_mode = "MPI", !.mpisize = sz ] :
      r \in {5, DiagDen}, sz \in 2 .. MaxWorkers + 1 }

\* steps of at most one block per rank
WireBlocks == { hm \in DiagBlocks : Len(hm) <= MaxWorkers + 1 }

wire_idle(unit) ==
  [ todo |-> <<>>, done |-> <<>>, nodes |-> <<>>, unit |-> unit,
    src |-> 0, want |-> <<>>, got |-> [ vec |-> <<>>, size2 |-> 0 ] ]

InitWire ==
  /\ P \in WireConfigs
  /\ data = [ I \in Invars |-> 1 ]
  /\ runtype = "NRG"
  /\ ndxN = firstndx
  /\ pc = "call"
  /\ diagprev = NoDiag
  /\ hmat \in WireBlocks
  /\ diag = NoDiag
  /\ diagratio = P.diagratio
  /\ nattempt = 0
  /\ notenough = FALSE
  /\ stats = [ Egs |-> 0, total_energy |-> 0, GS_energy |-> 0,
               abs_Egs |-> [ n \in 0 .. Nlen - 1 |-> 0 ] ]
  /\ dm = [ n \in 0 .. AllStepsSize - 1 |-> NoDiag ]
  /\ files = [ n \in 0 .. Nlen - 1 |-> NoDiag ]
  /\ phases = [ n \in 0 .. Nlen - 1 |-> {} ]
  /\ diagnew = NoDiag
  /\ \E unit \in Units : mpi = wire_idle(unit)
  /\ inbox = [ w \in 1 .. P.mpisize - 1 |-> <<>> ]
  /\ outbox = [ w \in 1 .. P.mpisize - 1 |-> <<>> ]
  /\ wk = [ w \in 1 .. P.mpisize - 1 |->
              [ st |-> "run", DP |-> 0, want |-> <<>>, sent |-> <<>>, I |-> 0 ] ]
  /\ omp = omp_idle
  /\ fsys = fsys_init
  /\ error = NoError
  /\ wd = wd_unused

WireUnchanged ==
  /\ UNCHANGED << P, ndxN, hmat, diag, diagratio, omp >>
  /\ UNCHANGED evars
  /\ UNCHANGED xvars

\* send_params and the set-up of todo, done and nodes
WireCall ==
  /\ pc = "call"
  /\ inbox' = Broadcast(inbox, sync_msg(diagratio))
  /\ mpi' = [ mpi EXCEPT !.todo = tasks_of(hmat),
                         !.nodes = [ i \in 1 .. P.mpisize |-> i - 1 ] ]
  /\ pc' = "sched"
  /\ UNCHANGED << diagnew, outbox, wk >>
  /\ WireUnchanged

\* one pass of the scheduling loop: the task is diagonalised on the root,
\* or sent as TAG_DIAG, the matrix and the invariant
WireSchedule ==
  /\ pc = "sched"
  /\ mpi.todo # <<>>
  /\ mpi.nodes # <<>>
  /\ LET pop == Len(mpi.todo) # 1
         i   == pick_node(mpi.todo, mpi.nodes)
         I   == IF i = 0 THEN mpi.todo[Len(mpi.todo)] ELSE Head(mpi.todo)
         d   == Len(hmat[I])
     IN  /\ mpi' = [ mpi EXCEPT
                       !.todo  = todo_rest(mpi.todo, i),
                       !.nodes = IF i = 0
                                 THEN (IF pop THEN nodes_rest(mpi.nodes) ELSE mpi.nodes)
                                        \o << 0 >>
                                 ELSE nodes_rest(mpi.nodes),
                       !.done  = IF i = 0 THEN Append(mpi.done, I) ELSE mpi.done ]
         /\ diagnew' = IF i = 0 THEN MapPut(diagnew, I, diagonalise(hmat[I], diagratio))
                       ELSE diagnew
         /\ inbox' = IF i = 0 THEN inbox
                     ELSE [ inbox EXCEPT ![i] = @ \o << [ tag |-> "DIAG" ] >>
                                                  \o send_matrix(d, d)
                                                  \o << [ tag |-> "INVAR", I |-> I ] >> ]
  /\ pc' = "poll"
  /\ UNCHANGED << outbox, wk >>
  /\ WireUnchanged

\* iprobe for the first message of a result: read_from starts, or the
\* loop goes on (to the final loop once todo is empty)
WireProbe ==
  /\ pc \in { "poll", "drain" }
  /\ \/ \E w \in Workers :
          /\ match(outbox[w], probe_tag(mpi.unit)) # 0
          /\ mpi' = [ mpi EXCEPT !.src = w, !.want = receive_eigen(mpi.unit) ]
          /\ pc' = IF pc = "poll" THEN "read" ELSE "read_drain"
     \/ /\ \A w \in Workers : match(outbox[w], probe_tag(mpi.unit)) = 0
        /\ pc = "poll"
        /\ pc' = IF mpi.todo = <<>> THEN "drain" ELSE "sched"
        /\ UNCHANGED mpi
  /\ UNCHANGED << diagnew, inbox, outbox, wk >>
  /\ WireUnchanged

\* one receive of read_from; after the invariant the result is stored,
\* done grows and the worker is available again
WireRead ==
  /\ pc \in { "read", "read_drain" }
  /\ LET w    == mpi.src
         step == Head(mpi.want)
         k    == match(outbox[w], tag_of(step))
         msg  == outbox[w][k]
     IN  /\ k # 0
         /\ outbox' = [ outbox EXCEPT ![w] = Without(@, k) ]
         /\ IF step = "INVAR"
            THEN /\ diagnew' = MapPut(diagnew, msg.I, EigenNew(mpi.got.vec, mpi.got.size2))
                 /\ mpi' = [ mpi EXCEPT !.want = <<>>, !.src = 0,
                                        !.done = Append(@, msg.I),
                                        !.nodes = Append(@, w) ]
                 /\ pc' = IF pc = "read" THEN "poll" ELSE "drain"
            ELSE /\ mpi' = [ mpi EXCEPT
                     !.want = IF step = "SIZE1" THEN receive_rest(msg.v) ELSE Tail(@),
                     !.got  = IF step = "EIGEN_VEC" THEN [ @ EXCEPT !.vec = msg.v ]
                              ELSE IF step = "SIZE2" THEN [ @ EXCEPT !.size2 = msg.v ]
                              ELSE @ ]
                 /\ UNCHANGED << diagnew, pc >>
  /\ UNCHANGED << inbox, wk >>
  /\ WireUnchanged

\* the end of the final loop
WireReturn ==
  /\ pc = "drain"
  /\ Len(mpi.done) = Cardinality(DOMAIN hmat)
  /\ pc' = "returned"
  /\ UNCHANGED << diagnew, mpi, inbox, outbox, wk >>
  /\ WireUnchanged

\* run_nrg_slave: the receive with any_tag and its switch
WireWorkerAny(w) ==
  /\ wk[w].st = "run"
  /\ wk[w].want = <<>>
  /\ inbox[w] # <<>>
  /\ LET msg == Head(inbox[w])
     IN  wk' = [ wk EXCEPT ![w] =
                   IF msg.tag = "SYNC" THEN [ @ EXCEPT !.DP = msg.DP ]
                   ELSE IF msg.tag = "DIAG" THEN [ @ EXCEPT !.want = << "SIZE1" >> ]
                   ELSE @ ]
  /\ inbox' = [ inbox EXCEPT ![w] = Tail(@) ]
  /\ UNCHANGED << pc, diagnew, mpi, outbox >>
  /\ WireUnchanged

\* slave_diag: one receive of receive_matrix or of the invariant; after
\* the invariant the block is diagonalised and send_eigen and the send of
\* the invariant follow
WireWorkerRecv(w) ==
  /\ wk[w].st = "run"
  /\ wk[w].want # <<>>
  /\ LET step  == Head(wk[w].want)
         k     == match(inbox[w], tag_of(step))
         msg   == inbox[w][k]
         reply == send_eigen(mpi.unit, diagonalise(hmat[msg.I], wk[w].DP))
                    \o << [ tag |-> "INVAR", I |-> msg.I ] >>
     IN  /\ k # 0
         /\ inbox' = [ inbox EXCEPT ![w] = Without(@, k) ]
         /\ IF step = "INVAR"
            THEN /\ outbox' = [ outbox EXCEPT ![w] = @ \o reply ]
                 /\ wk' = [ wk EXCEPT ![w] = [ @ EXCEPT !.want = <<>>, !.sent = reply,
                                                         !.I = msg.I ] ]
            ELSE /\ wk' = [ wk EXCEPT ![w] = [ @ EXCEPT !.want =
                              IF step = "SIZE1" THEN receive_rest(msg.v) ELSE Tail(@) ] ]
                 /\ UNCHANGED outbox
  /\ UNCHANGED << pc, diagnew, mpi >>
  /\ WireUnchanged

NextWire ==
  \/ WireCall
  \/ WireSchedule
  \/ WireProbe
  \/ WireRead
  \/ WireReturn
  \/ \E w \in Workers : WireWorkerAny(w)
  \/ \E w \in Workers : WireWorkerRecv(w)

SpecWire == InitWire /\ [][NextWire]_vars

\* =============================================================== claims
\* the positions between the end of truncate_prepare (the return of
\* do_diag) and the end of the step
Prepared ==
  pc \in { "after_diag", "split", "recalc_all", "truncate", "dm_store",
           "recalc_irr", "recalc_kept", "trim" }

\* the physical truncation of the current step has been performed
Truncated == pc \in { "dm_store", "recalc_irr", "recalc_kept", "trim" }

\* all eigenvalues found for the current shell, relative to the lowest one
\* (the sorted energies truncate_prepare has seen)
all_energies(d) ==
  LET lows == { d[I].value_orig[1] : I \in DOMAIN d }
      E0   == CHOOSE e \in lows : \A f \in lows : e <= f
  IN  sorted_energies([ I \in DOMAIN d |->
        [ value_zero |-> [ i \in 1 .. Len(d[I].value_orig) |-> d[I].value_orig[i] - E0 ] ] ])

\* the last-step override that keeps every computed state
KeepAllOverride == step_last /\ P.lastall

\* ---- C8
\* C8: for every subspace, from the end of truncate_prepare to the end of
\* the step, kept <= stored <= computed <= dim.
C8_KeptStoredComputedDim ==
  Prepared =>
    \A I \in DOMAIN diag :
      /\ getnrkept(diag[I]) <= getnrstored(diag[I])
      /\ getnrstored(diag[I]) <= getnrcomputed(diag[I])
      /\ getnrcomputed(diag[I]) <= getdim(diag[I])

\* a subspace after the physical truncation of a partial diagonalisation,
\* with states discarded: kept = stored < computed < dim
C8_Witness ==
  /\ Truncated
  /\ \E I \in DOMAIN diag :
       /\ getnrkept(diag[I]) = getnrstored(diag[I])
       /\ getnrstored(diag[I]) < getnrcomputed(diag[I])
       /\ getnrcomputed(diag[I]) < getdim(diag[I])

\* ---- C9
\* C9 as stated: with keepenergy <= 0 the number of kept states never
\* exceeds keep, whatever the spectrum.
C9_KeptAtMostKeep ==
  (Prepared /\ P.keepenergy2 <= 0) => nrkept(diag) <= P.keep

\* the keep-th eigenvalue is not degenerate with the next one
CutInGap(energies, k) == Len(energies) <= k \/ energies[k] < energies[k + 1]

\* C9 amended: with keepenergy <= 0, the safeguard off and no keep-all
\* override in the last step, the number of kept states does not exceed
\* keep provided the keep-th eigenvalue is not degenerate with the next
\* one; states degenerate with the keep-th one are all kept.
C9_KeptAtMostKeepInGap ==
  ( /\ Prepared
    /\ P.keepenergy2 <= 0
    /\ P.safeguard2 <= 0
    /\ ~KeepAllOverride
    /\ CutInGap(all_energies(diag), P.keep) )
  => nrkept(diag) <= P.keep

\* the cut bites: more states than keep, exactly keep are kept
C9_Witness ==
  /\ Truncated
  /\ P.keepenergy2 <= 0 /\ P.safeguard2 <= 0 /\ ~KeepAllOverride
  /\ CutInGap(all_energies(diag), P.keep)
  /\ Len(all_energies(diag)) > P.keep
  /\ nrkept(diag) = P.keep

\* ---- C10
\* C10 as stated: nrkept >= min(keepmin, totalnumber) for every
\* configuration of keep, keepmin and keepenergy.
C10_KeptAtLeastKeepmin ==
  Prepared => nrkept(diag) >= Min2(P.keepmin, Len(all_energies(diag)))

\* C10 amended: nrkept >= min(keepmin, totalnumber) for every
\* configuration with keepmin <= keep.
C10_KeptAtLeastKeepminBelowKeep ==
  (Prepared /\ P.keepmin <= P.keep)
  => nrkept(diag) >= Min2(P.keepmin, Len(all_energies(diag)))

\* keepmin decides: the energy cut alone would keep fewer states
C10_Witness ==
  /\ Truncated
  /\ P.keepenergy2 > 0 /\ P.keepmin <= P.keep
  /\ 1 + CountBelowCutoff(all_energies(diag), P) < P.keepmin
  /\ P.keepmin < Len(all_energies(diag))
  /\ nrkept(diag) = P.keepmin

\* ---- C2
\* a subspace of the current shell has been shrunk physically
Shrunk == \E I \in DOMAIN diag : getnrstored(diag[I]) < getnrcomputed(diag[I])

C4_ConvergesInFourRestarts ==
  /\ nattempt <= 4
  /\ (Prepared /\ step_nrg) => ~notenough

\* every partial diagonalisation was insufficient: four restarts
C4_Witness ==
  /\ pc = "after_diag"
  /\ step_nrg
  /\ nattempt = 4
  /\ diagratio = DiagDen
  /\ ~notenough

\* ---- C5
\* every action of step n of the current pass has completed
StepComplete(n) ==
  /\ {"begin", "diag", "measure", "split", "recalc", "truncate", "dm_store", "trim"}
       \subseteq phases[n]
  /\ n < lastndx => "recalc_f" \in phases[n]

\* C5: in each pass the steps are executed in increasing index order, and
\* every action of a step has completed before any action of the next
\* step begins: every step below the current one is complete, no step
\* above it has begun.
C5_StrictStepOrder ==
  \A n \in DOMAIN phases :
    /\ n < ndxN => StepComplete(n)
    /\ n > ndxN => phases[n] = {}

\* the second step of the DM pass is under way
C5_Witness ==
  /\ step_dmnrg
  /\ ndxN = 1
  /\ pc = "dm_store"
  /\ StepComplete(0)

\* ---- C1
\* the messages with tag t that rank w has not received yet
Pending(w, t) == { i \in 1 .. Len(inbox[w]) : inbox[w][i].tag = t }

\* TAG_EXIT has been sent to rank w
ExitSent(w) == Pending(w, "EXIT") # {} \/ wk[w].st = "exited"

\* no task of any step is unscheduled, no dispatched task is unread (the
\* root has left the calculation, or the job has been aborted after that)
AllWorkDone ==
  /\ step_end
  /\ pc \in {"finished", "mpi_abort"}
  /\ mpi.todo = <<>>
  /\ \A w \in Workers : Pending(w, "DIAG") = {} /\ outbox[w] = <<>>
  /\ DOMAIN diag = DOMAIN hmat

\* C1: whenever TAG_EXIT has been sent to a worker, no diagonalisation
\* task of any step is still unscheduled and no dispatched task's result
\* is still unread by the root.
C1_ExitAfterAllWork ==
  \A w \in Workers : ExitSent(w) => AllWorkDone

\* a worker that has diagonalised blocks has received TAG_EXIT and left
C1_Witness ==
  /\ P.diag_mode = "MPI"
  /\ P.mpisize = MaxWorkers + 1
  /\ \A w \in Workers : wk[w].st = "exited"
  /\ Len(mpi.done) = MaxTasks
  /\ mpi.done # tasks_of(hmat)

\* ---- C6
\* C6: whichever dispatcher runs, with however many workers or threads and
\* in whatever order the tasks complete, the DiagInfo returned has the
\* keys of the task list, each mapped to the spectrum of its own block at
\* the diagratio of the call.
C6_SameDiagInfo ==
  pc = "returned" =>
    /\ DOMAIN diag = DOMAIN hmat
    /\ \A I \in DOMAIN hmat : diag[I] = diagonalise(hmat[I], diagratio)

\* the message-passing dispatcher returns after results have come in from
\* two workers in an order that is not the order of the task list
C6_Witness ==
  /\ pc = "returned"
  /\ P.diag_mode = "MPI"
  /\ diagratio < DiagDen
  /\ Len(mpi.done) = MaxTasks
  /\ mpi.done # tasks_of(hmat)
  /\ \E w \in Workers : \E v \in Workers : w # v /\ wk[w].DP = diagratio /\ wk[v].DP = diagratio
  /\ \E I \in DOMAIN diag : getnrcomputed(diag[I]) < getdim(diag[I])

\* ---- C7
\* the threads inside the insertion
Inserting == { t \in DOMAIN omp.th : omp.th[t].st = "insert" }

\* C7: no two threads are inside the insertion at the same time, no result
\* is lost while the loop runs, and after the join the DiagInfo holds
\* exactly one spectrum, its own, per task of the task list.
C7_CriticalInsertion ==
  /\ Cardinality(Inserting) <= 1
  /\ pc = "omp" =>
       \A i \in 1 .. omp.next - 1 :
         LET I == tasks_of(hmat)[i]
         IN  \/ \E t \in DOMAIN omp.th : omp.th[t].st # "idle" /\ omp.th[t].I = I
             \/ I \in DOMAIN diagnew
  /\ (pc = "returned" /\ P.diag_mode = "OpenMP") =>
       /\ DOMAIN diag = { tasks_of(hmat)[i] : i \in 1 .. Len(tasks_of(hmat)) }
       /\ \A I \in DOMAIN diag : diag[I] = diagonalise(hmat[I], diagratio)

\* one thread is inside the insertion while another one waits to enter
C7_Witness ==
  /\ pc = "omp"
  /\ Cardinality(Inserting) = 1
  /\ \E t \in DOMAIN omp.th : omp.th[t].st = "ready"
  /\ DOMAIN diagnew # {}

\* ---- C11
\* the gap above the cut exceeds the safeguard tolerance, where there is a
\* state above the cut and the cap of extra states has not been reached
GapAboveCut(energies) ==
  LET n == nrkeep_final(energies, P)
  IN  (n < Len(energies) /\ cnt_extra(energies, P) < P.safeguardmax)
        => 2 * (energies[n + 1] - energies[n]) > P.safeguard2

\* C11 as stated: at the return of highest_retained_energy the gap between
\* the first discarded and the last kept energy exceeds the safeguard
\* tolerance unless the cap of extra states was reached, for every value
\* of the tolerance.
C11_SafeguardGap == Prepared => GapAboveCut(all_energies(diag))

\* C11 amended: with the safeguard enabled (tolerance > 0) the gap between
\* the first discarded and the last kept energy exceeds the tolerance
\* unless the cap of extra states was reached; with a tolerance <= 0 the
\* safeguard loop is skipped.
C11_SafeguardGapEnabled ==
  (Prepared /\ P.safeguard2 > 0) => GapAboveCut(all_energies(diag))

\* the safeguard has added states, stopped below the cap, and a state is
\* left above the cut
C11_Witness ==
  /\ Prepared /\ P.safeguard2 > 0
  /\ cnt_extra(all_energies(diag), P) >= 1
  /\ cnt_extra(all_energies(diag), P) < P.safeguardmax
  /\ nrkeep_final(all_energies(diag), P) < Len(all_energies(diag))

\* ---- C12
\* C12: at every step of either pass, from the return of do_diag on, the
\* lowest shifted eigenvalue of every subspace is >= 0 and the minimum over
\* the subspaces is 0; the run is never stopped by the check that the
\* smallest sorted energy is 0.
C12_GroundStateZero ==
  /\ Prepared =>
       /\ \A I \in DOMAIN diag :
            Len(diag[I].value_zero) > 0 => diag[I].value_zero[1] >= 0
       /\ \E I \in DOMAIN diag :
            Len(diag[I].value_zero) > 0 /\ diag[I].value_zero[1] = 0
  /\ pc = "aborted" => sorted_energies(diag)[1] = 0

\* second pass, spectra read back from disk at a later step: the ground
\* state was shifted by a nonzero Egs
C12_Witness ==
  /\ Prepared /\ step_dmnrg /\ ndxN > firstndx
  /\ find_groundstate(diag) > 0
  /\ \E I \in DOMAIN diag : Len(diag[I].value_zero) > 0 /\ diag[I].value_zero[1] = 0

\* ---- C13
\* C13: in a zero-bandwidth run (Nmax = 0) first() and last() both hold at
\* step index 0; in each pass the truncation / DM-store path is entered
\* exactly once (not yet done when the run is about to enter it, done when
\* the pass has ended); the store index is inside the valid range (the
\* range check of the store never stops the run); AllSteps has length 1.
C13_ZeroBandwidthOnce ==
  ZBW =>
    /\ ndxN = 0 /\ step_first /\ step_last
    /\ pc # "aborted"
    /\ DOMAIN dm = {0}
    /\ pc = "iterate" => "diag" \notin phases[0]
    /\ pc = "dm_store" => "dm_store" \notin phases[0] /\ store_in_range(ndxN)
    /\ pc \in {"second", "done"} => {"diag", "dm_store"} \subseteq phases[0]

\* the end of the second pass of a zero-bandwidth run with a truncation
\* that was prepared (fewer states kept than stored)
C13_Witness ==
  /\ ZBW /\ pc = "done" /\ step_dmnrg
  /\ DOMAIN dm[0] = Invars
  /\ \E I \in DOMAIN dm[0] : dm[0][I].kept < getnrstored(dm[0][I].eig)

\* ---- C14
\* the loop of the pass has ended and run_nrg has not yet assigned GS_energy
PassLoopEnded == IF ZBW THEN pc = "trim" ELSE pc = "iterate" /\ step_end

PassComplete ==
  \A n \in firstndx .. lastndx : {"diag", "measure", "dm_store"} \subseteq phases[n]

\* C15: the DONE flag file exists only on full completion: whenever DONE
\* has been created, every configured pass has run to its end, no error
\* has been thrown, and no stopafter breakpoint has stopped the run.
C15_DoneOnlyOnCompletion ==
  fsys.DONE =>
    /\ pc = "exited"
    /\ error = NoError
    /\ runtype = IF P.dm THEN "DMNRG" ELSE "NRG"
    /\ PassComplete
    /\ P.stopafter # "nrg"
    /\ P.dm => P.stopafter # "rho"

\* a run of two passes over more than one step has created DONE
C15_Witness ==
  /\ fsys.DONE
  /\ P.dm /\ Nlen > 1 /\ runtype = "DMNRG"
  /\ P.need_rho /\ P.need_rhoFDM

\* the blobs of step n, and the end of step n in the second pass
StepBlobs(n) == { Blob("unitary", n), Blob("rho", n), Blob("rhoFDM", n) }
SecondPassStepOver(n) == step_dmnrg /\ "trim" \in phases[n]

\* C16: with file removal enabled, after step N of the second pass none of
\* the blobs of step N that were loaded remains in the working directory;
\* a blob is never deleted before it has been loaded; the first pass
\* deletes nothing; with removal disabled no blob is deleted.
C16_BlobsRemovedAfterLoad ==
  /\ P.removefiles =>
       \A n \in 0 .. Nlen - 1 :
         SecondPassStepOver(n) => (StepBlobs(n) \cap fsys.loaded) \cap fsys.present = {}
  /\ fsys.removed \subseteq fsys.loaded
  /\ step_nrg => fsys.removed = {}
  /\ ~P.removefiles => fsys.removed = {}

\* the last step of a second pass over more than one step is over, its
\* three blobs have been loaded and deleted
C16_Witness ==
  /\ P.removefiles /\ Nlen > 1
  /\ SecondPassStepOver(lastndx)
  /\ StepBlobs(lastndx) \subseteq fsys.removed
  /\ fsys.present = {}

\* C18: all writes are fail-fast: after an I/O error while a transformation
\* or density-matrix blob is written, the run is in the error state with an
\* error that carries the name of that blob, and nothing has proceeded.
C18_WritesFailFast ==
  \A fn \in fsys.failed : pc = "error" /\ error.file = fn /\ save_throws(error)

\* the unique subdirectory of the run under the directory root
UniqueUnder(root) == [ dir |-> root, sub |-> "XXXXXX" ]

\* C17 (as stated): the scratch root is NRG_WORKDIR if set and "."
\* otherwise; a unique subdirectory of it exists during the run, every blob
\* is written inside it, and it is gone after the exit.
C17_Workdir ==
  wd # wd_unused /\ wd.st # "start" =>
    /\ wd.root = IF wd.env # << >> THEN wd.env[1] ELSE "."
    /\ wd.workdir = UniqueUnder(wd.root)
    /\ wd.st = "running" => wd.workdir \in wd.dirs
    /\ \A f \in wd.written : f.in = wd.workdir
    /\ wd.st = "exited" => wd.workdir \notin wd.dirs

\* C17 (amended): the scratch root is the directory argument if it is not
\* empty, else NRG_WORKDIR if set, else "."; if the unique subdirectory can
\* be created under it, it exists during the run, every blob is written
\* inside it, and at exit it is removed if and only if it is empty; if it
\* cannot be created the blobs are written in "." itself.
C17_WorkdirAmended ==
  wd # wd_unused /\ wd.st # "start" =>
    /\ wd.root = IF wd.arg # "" THEN wd.arg ELSE IF wd.env # << >> THEN wd.env[1] ELSE "."
    /\ wd.made => /\ wd.workdir = UniqueUnder(wd.root)
                  /\ wd.st = "running" => wd.workdir \in wd.dirs
                  /\ wd.st = "exited" =>
                       (wd.workdir \notin wd.dirs <=> ~(\E f \in wd.content : f.in = wd.workdir))
    /\ ~wd.made => wd.workdir = [ dir |-> ".", sub |-> "" ] /\ wd.dirs = {}
    /\ \A f \in wd.written : f.in = wd.workdir

\* a run under NRG_WORKDIR has written blobs into its subdirectory, loaded
\* and deleted them, and the subdirectory has been removed at exit
C17_Witness ==
  /\ wd # wd_unused /\ wd.st = "exited"
  /\ wd.env # << >> /\ wd.arg = "" /\ wd.made
  /\ Cardinality(wd.written) > 1
  /\ wd.workdir \notin wd.dirs

\* a status error has been seen by check_status on some process
StatusErrorSeen == error.what = "MPI communication error"

\* C19: a message-passing status error on any process aborts the entire
\* job: after such an error the root is not in the calculation any more,
\* every worker has ended, the step that sees the error delivers no spectra
\* and does not advance the calculation, and nothing changes from then on.
C19_StatusErrorAbortsJob ==
  /\ [](StatusErrorSeen =>
          /\ pc = "mpi_abort"
          /\ \A w \in Workers : wk[w].st = "aborted")
  /\ [][/\ StatusErrorSeen' => diag' = diag /\ ndxN' = ndxN
        /\ StatusErrorSeen => UNCHANGED vars]_vars

\* a worker has seen a status error while another worker still had a
\* request to serve and the root had results to collect
C19_Witness ==
  /\ StatusErrorSeen /\ error.file # << 0 >>
  /\ \E w \in Workers : inbox[w] # <<>> /\ << w >> # error.file
  /\ diagnew # NoDiag

\* the number of places a task is in: the todo list, a request on its way
\* to a worker, a result on its way back, the done list
Occurrences(I) ==
  Cardinality({ k \in 1 .. Len(mpi.todo) : mpi.todo[k] = I })
  + SeqSum([ w \in 1 .. Len(inbox) |->
             Cardinality({ k \in Pending(w, "DIAG") : inbox[w][k].I = I }) ])
  + SeqSum([ w \in 1 .. Len(outbox) |->
             Cardinality({ k \in 1 .. Len(outbox[w]) : outbox[w][k].I = I }) ])
  + Cardinality({ k \in 1 .. Len(mpi.done) : mpi.done[k] = I })

InMPIDispatch == P.diag_mode = "MPI" /\ pc \in {"sched", "poll", "drain", "returned"}

\* C20: for every task list and every number of processes, the root alone
\* included, message-passing dispatch handles every task exactly once (a
\* task is at any time in exactly one of: to do, sent out, on its way
\* back, done) and returns only when every result is recorded: on return
\* the done list is a permutation of the task list and the result map has
\* exactly the tasks as its keys.
C20_MPIDispatchComplete ==
  InMPIDispatch =>
    /\ \A I \in DOMAIN hmat : Occurrences(I) = 1
    /\ \A k \in 1 .. Len(mpi.done) : mpi.done[k] \in DOMAIN diagnew
    /\ pc = "returned" =>
         /\ Len(mpi.done) = Len(tasks_of(hmat))
         /\ { mpi.done[k] : k \in 1 .. Len(mpi.done) } = DOMAIN hmat
         /\ DOMAIN diag = DOMAIN hmat
         /\ mpi.todo = <<>>

\* a dispatch over the longest task list with every worker has returned
\* with the tasks finished in an order other than that of the list
C20_Witness ==
  /\ InMPIDispatch /\ pc = "returned"
  /\ P.mpisize = MaxWorkers + 1
  /\ Len(tasks_of(hmat)) = MaxTasks
  /\ mpi.done # tasks_of(hmat)
  /\ \E w \in Workers : wk[w].st = "run"

\* the tasks of rank w that the root has sent and whose result it has not
\* read yet
InFlight(w) ==
  Cardinality(Pending(w, "DIAG")) + Len(outbox[w])

\* C21: the root never sends a task to a worker that has one outstanding:
\* a worker in the pool of available nodes has nothing in flight, it is
\* in the pool at most once, every worker has at most one task in flight,
\* and the pool is not empty when a task is about to be scheduled.
C21_OneTaskPerWorker ==
  (P.diag_mode = "MPI" /\ pc \in {"sched", "poll", "drain"}) =>
    /\ \A w \in Workers : InFlight(w) <= 1
    /\ \A w \in Workers :
         LET at == { k \in 1 .. Len(mpi.nodes) : mpi.nodes[k] = w }
         IN  /\ Cardinality(at) <= 1
             /\ at # {} => InFlight(w) = 0
    /\ (pc = "sched" /\ mpi.todo # <<>>) => mpi.nodes # <<>>

\* a dispatch with every worker in the middle of its list: a worker has a
\* task in flight, a worker is in the pool, tasks are done and tasks are
\* left to do
C21_Witness ==
  /\ P.diag_mode = "MPI" /\ pc = "sched"
  /\ P.mpisize = MaxWorkers + 1
  /\ Len(mpi.todo) >= 2
  /\ mpi.done # <<>>
  /\ \E w \in Workers : InFlight(w) = 1
  /\ \E w \in Workers : \E k \in 1 .. Len(mpi.nodes) : mpi.nodes[k] = w

\* the diagratio rank w will hold when it takes the k-th message of its
\* inbox: that of the last TAG_SYNC before it, or the one it holds now
DPAt(w, k) ==
  LET syncs == { j \in Pending(w, "SYNC") : j < k }
  IN  IF syncs = {} THEN wk[w].DP
      ELSE inbox[w][CHOOSE j \in syncs : \A i \in syncs : i <= j].DP

\* C22: in every dispatch, a retry of a step with a changed diagratio
\* included, the parameters reach a worker before any task of the
\* dispatch does: every task on its way to a worker will be diagonalised
\* with the diagratio of the current attempt, and every result on its way
\* back or recorded was computed with it.
C22_ParamsBeforeTasks ==
  (P.diag_mode = "MPI" /\ pc \in {"sched", "poll", "drain"}) =>
    /\ \A w \in Workers : \A k \in Pending(w, "DIAG") : DPAt(w, k) = diagratio
    /\ \A w \in Workers : \A k \in 1 .. Len(outbox[w]) :
         outbox[w][k].eig = diagonalise(hmat[outbox[w][k].I], diagratio)
    /\ \A I \in DOMAIN diagnew : diagnew[I] = diagonalise(hmat[I], diagratio)

\* the dispatch of a retry: the diagratio is not that of the first
\* attempt, a worker has answered and another task is on its way
C22_Witness ==
  /\ P.diag_mode = "MPI" /\ pc \in {"sched", "poll", "drain"}
  /\ diagratio # P.diagratio
  /\ \E w \in Workers : outbox[w] # <<>>
  /\ \E w \in Workers : Pending(w, "DIAG") # {}


\* ---- C23
Tags(q) == [ k \in 1 .. Len(q) |-> q[k].tag ]

\* every receive in progress finds the message it asks for at the head of
\* the queue of its source
WireMatched ==
  /\ pc \in { "read", "read_drain" } =>
       \/ outbox[mpi.src] = <<>>
       \/ Head(outbox[mpi.src]).tag = tag_of(Head(mpi.want))
  /\ \A w \in Workers :
       inbox[w] # <<>> =>
         IF wk[w].want = <<>>
         THEN Head(inbox[w]).tag \in { "SYNC", "DIAG" }
         ELSE Head(inbox[w]).tag = tag_of(Head(wk[w].want))

\* until the dispatch has returned some process can take a step
WireNotStuck == pc # "returned" => ENABLED NextWire

\* the result of the task a worker has answered last
LastEigen(w) == diagonalise(hmat[wk[w].I], wk[w].DP)

\* C23 as stated: the reply to a task is the eigenvalues, the two sizes,
\* one line per row of the eigenvectors and the invariant of the task, the
\* receives of both sides take their messages in the order sent, and no
\* side is left waiting.
C23_ReplyProtocol ==
  /\ \A w \in Workers :
       wk[w].sent # <<>> =>
         /\ Tags(wk[w].sent) =
              << "EIGEN_VEC", "MATRIX_SIZE", "MATRIX_SIZE" >>
                \o Repeat("MATRIX_LINE", getnrcomputed(LastEigen(w))) \o << "INVAR" >>
         /\ wk[w].sent[Len(wk[w].sent)].I = wk[w].I
  /\ WireMatched
  /\ WireNotStuck

\* C23 amended: as stated, except that the reply of nrg-lib.cc starts with
\* an empty Eigen object of tag TAG_EIGEN, the message its root probes for
\* and receives first; in both units the receives of both sides take their
\* messages in the order sent, every result read is the result of the task
\* named by the invariant, and no side is left waiting.
C23_ReplyProtocolAmended ==
  /\ \A w \in Workers :
       wk[w].sent # <<>> =>
         /\ Tags(wk[w].sent) =
              (IF mpi.unit = "nrg-lib.cc" THEN << "EIGEN" >> ELSE << >>)
                \o << "EIGEN_VEC", "MATRIX_SIZE", "MATRIX_SIZE" >>
                \o Repeat("MATRIX_LINE", getnrcomputed(LastEigen(w))) \o << "INVAR" >>
         /\ wk[w].sent[Len(wk[w].sent)].I = wk[w].I
  /\ WireMatched
  /\ WireNotStuck
  /\ \A I \in DOMAIN diagnew : diagnew[I] = diagonalise(hmat[I], diagratio)
  /\ pc = "returned" =>
       /\ DOMAIN diagnew = DOMAIN hmat
       /\ \A w \in Workers : outbox[w] = <<>>

\* a dispatch of nrg-lib.cc has returned in which a worker has answered a
\* task with fewer eigenvectors than the dimension of its block
C23_Witness ==
  /\ pc = "returned"
  /\ mpi.unit = "nrg-lib.cc"
  /\ \E w \in Workers :
       /\ wk[w].sent # <<>>
       /\ getnrcomputed(LastEigen(w)) < getdim(LastEigen(w))
       /\ wk[w].I \in DOMAIN diagnew

\* ---- C24
\* C24: a pass of the scheduling loop that finds exactly one task in todo
\* diagonalises that task on rank 0: no message is sent, the task joins
\* done and its result is stored at once; the pass that empties todo is
\* always such a pass.
C24_LastTaskOnRoot ==
  [][ (pc = "sched" /\ pc' = "poll") =>
        /\ mpi'.todo = <<>> => Len(mpi.todo) = 1
        /\ Len(mpi.todo) = 1 =>
              /\ inbox' = inbox
              /\ mpi'.done = Append(mpi.done, mpi.todo[1])
              /\ mpi.todo[1] \in DOMAIN diagnew'
              /\ diagnew'[mpi.todo[1]] = diagonalise(hmat[mpi.todo[1]], diagratio) ]_vars

\* the last of several tasks has just been scheduled on the root although
\* a worker was available
C24_Witness ==
  /\ pc = "poll"
  /\ mpi.todo = <<>>
  /\ Cardinality(DOMAIN hmat) >= 2
  /\ Len(mpi.nodes) >= 3
  /\ mpi.nodes[Len(mpi.nodes)] = 0
  /\ mpi.nodes[Len(mpi.nodes) - 1] # 0
  /\ mpi.done # <<>>
  /\ mpi.done[Len(mpi.done)] \in DOMAIN diagnew

\* ---- C25
\* a pass of the retry loop that ends in the catch clause with a restart
Retried == pc = "do_diag" /\ pc' = "do_diag"

\* one step of the run seen by the retry loop
RetryStep ==
  /\ (pc = "do_diag" /\ notenough' /\ step_nrg /\ P.restart) => Retried
  /\ Retried =>
       /\ step_nrg /\ P.restart /\ notenough'
       /\ ndxN' = ndxN
       /\ runtype' = runtype
       /\ diagratio' = Min2(diagratio * P.restartfactor, DiagDen)
       /\ phases' = phases

\* C25: in the first pass with restart enabled every pass of the retry
\* loop that finds the retained set insufficient is followed by another
\* pass for the same step with diagratio = min(diagratio * restartfactor, 1);
\* the step index is the same and diagratio never exceeds 1.
C25_RestartSameStep == [](diagratio <= DiagDen) /\ [][RetryStep]_vars

\* a step after the first is about to be diagonalised again, with the
\* diagratio raised to 1
C25_Witness ==
  /\ pc = "do_diag"
  /\ step_nrg
  /\ ndxN > firstndx
  /\ notenough
  /\ nattempt >= 1
  /\ P.diagratio < DiagDen
  /\ diagratio = DiagDen

\* ---- C26
\* C26: every restart of a step starts from a diagratio below 1 and raises
\* it, so that the retry loop of a step cannot go round more often than
\* diagratio can grow.
C26_RetryTerminates ==
  [][ Retried => (diagratio < DiagDen /\ diagratio' > diagratio) ]_vars

\* ---- C27
\* one step of the run seen by the post-processing of a step
PostProcessStep ==
  /\ Retried => phases[ndxN] \subseteq {"begin"}
  /\ (pc = "after_diag" /\ pc' # pc) =>
       /\ "diag" \in phases[ndxN] /\ "measure" \notin phases[ndxN]
       /\ stats'.total_energy = stats.total_energy + stats.Egs * step_scale
  /\ (stats'.total_energy # stats.total_energy /\ runtype' = runtype) => pc = "after_diag"
  /\ \A n \in 0 .. Nlen - 1 :
       /\ Blob("unitary", n) \in fsys'.present \ fsys.present =>
            (pc = "after_diag" /\ n = ndxN /\ step_nrg /\ Blob("unitary", n) \notin fsys.removed)
       /\ files'[n] # files[n] => (pc \in {"after_diag", "iterate"} /\ n = ndxN /\ step_nrg)
       /\ dm'[n] # dm[n] =>
            /\ pc = "dm_store" /\ n = ndxN
            /\ "dm_store" \notin phases[n] /\ "dm_store" \in phases'[n]
  /\ (pc = "dm_store" /\ pc' \notin {pc, "aborted"}) =>
       /\ "dm_store" \notin phases[ndxN]
       /\ dm'[ndxN] = dm_store(diag, step_last)
  /\ (pc = "do_diag" /\ pc' = "after_diag") =>
       /\ diag' = attempt_diag
       /\ stats'.Egs = find_groundstate(attempt_source)
  /\ (Prepared /\ pc' # "iterate") =>
       /\ nattempt' = nattempt /\ ndxN' = ndxN /\ runtype' = runtype
       /\ stats'.Egs = stats.Egs

\* C27: whatever the number of restarts, the processing after the
\* diagonalisation runs once per step and pass, after the last attempt:
\* total_energy grows by Egs * scale once, the transformation blob of the
\* step is written at most once and never again after its removal, and the
\* DM store of the step index is written once, from the result of the last
\* attempt.
C27_PostProcessOnce == [][PostProcessStep]_vars

\* the DM store of a later step has been written after a restart of the
\* step, and the total energy has grown
C27_Witness ==
  /\ pc = "recalc_irr"
  /\ ndxN > firstndx
  /\ nattempt >= 1
  /\ "dm_store" \in phases[ndxN]
  /\ dm[ndxN] # NoDiag
  /\ stats.total_energy > 0

\* ---- C28
\* the loads of the second pass, in order
SecondPassLoads == SelectSeq(fsys.log, LAMBDA r : r.pass = "DMNRG")

\* the blob of a load belongs to the step that loads it
OwnBlob(r) == r.fn \in StepBlobs(r.ndx)

\* with removal enabled no blob is loaded twice in the second pass, and a
\* blob that has been removed is not loaded again
LoadedOnce ==
  P.removefiles =>
    \A j, k \in DOMAIN SecondPassLoads :
      SecondPassLoads[j].fn = SecondPassLoads[k].fn => j = k

\* C28 as stated: every blob loaded in the second pass is a blob of the
\* step that loads it and was written earlier in this run; with removal
\* enabled no blob is loaded twice.
C28_ReadAfterWrite ==
  /\ \A k \in DOMAIN SecondPassLoads :
       OwnBlob(SecondPassLoads[k]) /\ SecondPassLoads[k].fn \in fsys.written
  /\ LoadedOnce

\* C28 amended: every blob loaded in the second pass is a blob of the step
\* that loads it and was written earlier in this run, except that in a
\* resumed run the unitary<N> blobs of the steps N <= laststored are those
\* the interrupted run has left; with removal enabled no blob is loaded
\* twice.
C28_ReadAfterWriteAmended ==
  /\ \A k \in DOMAIN SecondPassLoads :
       /\ OwnBlob(SecondPassLoads[k])
       /\ \/ SecondPassLoads[k].fn \in fsys.written
          \/ /\ P.resume
             /\ SecondPassLoads[k].ndx <= P.laststored
             /\ SecondPassLoads[k].fn = Blob("unitary", SecondPassLoads[k].ndx)
  /\ \A fn \in fsys.written : fn \in fsys.present \/ fn \in fsys.removed
  /\ LoadedOnce

\* the second pass of a run that started afresh has loaded and removed the
\* three blobs of each of its steps
C28_Witness ==
  /\ ~P.resume /\ P.removefiles /\ Nlen > 1
  /\ SecondPassStepOver(lastndx)
  /\ Len(SecondPassLoads) = 3 * Nlen
  /\ \A n \in 0 .. Nlen - 1 : StepBlobs(n) \subseteq fsys.written \cap fsys.removed

\* ---- C29
ExactlyOne(a, b, c) == (a /\ ~b /\ ~c) \/ (~a /\ b /\ ~c) \/ (~a /\ ~b /\ c)

\* one step of the run seen by the three branches of after_diag
BranchStep ==
  /\ ExactlyOne(do_recalc_all, do_recalc_kept, do_recalc_none)
  /\ (P.cfs_flags /\ step_dmnrg /\ ~ZBW) => do_recalc_all
  /\ (pc = "recalc_all" /\ pc' = "truncate") =>
       /\ "recalc" \notin phases[ndxN]
       /\ "truncate" \notin phases[ndxN]
       /\ "recalc" \in phases'[ndxN] <=> do_recalc_all
  /\ (pc = "recalc_kept" /\ pc' = "trim") =>
       /\ "recalc" \in phases'[ndxN]
       /\ phases' # phases <=> do_recalc_kept
       /\ (P.cfs_flags /\ step_dmnrg) => phases' = phases

\* C29: with a CFS flag enabled every step of the second pass (not ZBW)
\* recalculates the operators and evaluates the spectra with all states,
\* before the truncation, whatever the strategy; in every step exactly one
\* of the three branches of after_diag is taken.
C29_CFSRecalcAll == [][BranchStep]_vars

\* a step of the second pass with a CFS flag and strategy kept is about to
\* truncate, the operators have been recalculated
C29_Witness ==
  /\ P.cfs_flags /\ P.strategy = "kept"
  /\ step_dmnrg
  /\ ndxN > firstndx
  /\ pc = "truncate"
  /\ "recalc" \in phases[ndxN]

\* ---- C30
\* the energies truncate_prepare has looked at, and the number of them at
\* or below the cutoff
Energies == sorted_energies(diag)
Below    == CountBelowCutoff(Energies, P)

\* neither std::clamp changes the count of the energy cut
NoClamping ==
  /\ P.keepmin <= Below + 1
  /\ Below + 1 <= P.keep
  /\ Below + 1 <= Len(Energies)

\* the keep count is keep without a keep-energy, else one more than the
\* number of energies at or below the cutoff, within [keepmin, keep]
KeepCountAsStated ==
  nrkeep_start(Energies, P) =
    IF P.keepenergy2 <= 0 THEN P.keep
    ELSE Max2(P.keepmin, Min2(Below + 1, P.keep))

\* Emax is the lowest energy above the cutoff
EmaxFirstAbove ==
  /\ highest_retained_energy(diag, P) = Energies[Below + 1]
  /\ 2 * Energies[Below + 1] > P.keepenergy2 * step_unscale
  /\ \A i \in 1 .. Len(Energies) :
       2 * Energies[i] > P.keepenergy2 * step_unscale => Energies[i] >= Energies[Below + 1]

\* C30 as stated: the keep count is as stated (for keepmin <= keep), and
\* with a keep-energy and no clamping Emax is the energy of the first
\* state above the cutoff.
C30_EmaxFirstAboveCutoff ==
  pc = "after_diag" =>
    /\ P.keepmin <= P.keep => KeepCountAsStated
    /\ (P.keepenergy2 > 0 /\ NoClamping) => EmaxFirstAbove

\* C30 amended: the keep count is as stated (for keepmin <= keep), and with
\* a keep-energy, no clamping and no state added by the safeguard Emax is
\* the energy of the first state above the cutoff; every state the
\* safeguard adds moves Emax one state further up.
C30_EmaxFirstAboveCutoffAmended ==
  pc = "after_diag" =>
    /\ P.keepmin <= P.keep => KeepCountAsStated
    /\ (P.keepenergy2 > 0 /\ NoClamping /\ cnt_extra(Energies, P) = 0) => EmaxFirstAbove
    /\ (P.keepenergy2 > 0 /\ NoClamping) =>
         highest_retained_energy(diag, P) = Energies[Below + 1 + cnt_extra(Energies, P)]

\* the energy cut decides alone: states lie on both sides of the cutoff,
\* nothing is clamped, the safeguard is on and adds nothing
C30_Witness ==
  /\ pc = "after_diag"
  /\ P.keepenergy2 > 0 /\ P.safeguard2 > 0
  /\ NoClamping
  /\ Below >= 2
  /\ cnt_extra(Energies, P) = 0
  /\ nrkept(diag) = Below + 1
  /\ nrkept(diag) < Len(Energies)

====
